---- MODULE Spec2Model ----
(***************************************************************************)
(* Model of the Activeledger Rust SDK: key handles (RSA, EllipticCurve),   *)
(* the shared Signing engine, Transaction and Connection.                  *)
(*                                                                         *)
(* Text (Rust String / &str) is a sequence of Unicode code points; bytes   *)
(* (Vec<u8>, &[u8]) are sequences of 0..255.  Result values are records    *)
(* [ok |-> TRUE, val |-> v] and [ok |-> FALSE, kind |-> k, code |-> c].    *)
(* The cryptography provider (openssl), base64, reqwest and serde_json are  *)
(* modelled by what the calls made in the source do on the inputs the      *)
(* model draws.                                                            *)
(***************************************************************************)
EXTENDS Integers, Sequences, FiniteSets, TLC

VARIABLES keys, pem, sig, last, conn, reqs, out, node, failed, thr, net

vars == <<keys, pem, sig, last, conn, reqs, out, node, failed, thr, net>>

keyVars == <<keys, pem, sig, last>>

connVars == <<conn, reqs, out, node, failed>>

thrVars == <<thr, net>>

-----------------------------------------------------------------------------
(* Result values                                                           *)

Ok(v) == [ok |-> TRUE, val |-> v]

Err(k, c) == [ok |-> FALSE, kind |-> k, code |-> c]

Panic == [ok |-> FALSE, kind |-> "panic", code |-> 0]

None == [some |-> FALSE]

Some(v) == [some |-> TRUE, val |-> v]

-----------------------------------------------------------------------------
(* Text and bytes                                                          *)

\* str::as_bytes of one character: the UTF-8 encoding of a code point.
Utf8Char(cp) ==
  IF cp < 128 THEN <<cp>>
  ELSE IF cp < 2048 THEN <<192 + (cp \div 64), 128 + (cp % 64)>>
  ELSE IF cp < 65536
    THEN <<224 + (cp \div 4096), 128 + ((cp \div 64) % 64), 128 + (cp % 64)>>
    ELSE <<240 + (cp \div 262144), 128 + ((cp \div 4096) % 64),
           128 + ((cp \div 64) % 64), 128 + (cp % 64)>>

RECURSIVE as_bytes(_)
\* str::as_bytes: the UTF-8 bytes of a text.
as_bytes(s) ==
  IF Len(s) = 0 THEN <<>>
  ELSE IF Len(s) = 1 THEN Utf8Char(s[1])
  ELSE as_bytes(SubSeq(s, 1, Len(s) \div 2))
         \o as_bytes(SubSeq(s, Len(s) \div 2 + 1, Len(s)))

IsCont(b) == b >= 128 /\ b < 192

RECURSIVE from_utf8(_)
\* str::from_utf8: the text of a byte sequence, or an error when the bytes
\* are not well-formed UTF-8.
from_utf8(b) ==
  IF b = <<>> THEN Ok(<<>>)
  ELSE
    LET b1 == b[1]
        n == IF b1 < 128 THEN 1
             ELSE IF b1 >= 194 /\ b1 < 224 THEN 2
             ELSE IF b1 >= 224 /\ b1 < 240 THEN 3
             ELSE IF b1 >= 240 /\ b1 < 245 THEN 4
             ELSE 0
    IN IF n = 0 \/ Len(b) < n \/ (\E i \in 2..n : ~IsCont(b[i]))
         THEN Err("Utf8Error", 0)
         ELSE
           LET cp == IF n = 1 THEN b1
                     ELSE IF n = 2 THEN (b1 - 192) * 64 + (b[2] - 128)
                     ELSE IF n = 3
                       THEN (b1 - 224) * 4096 + (b[2] - 128) * 64 + (b[3] - 128)
                       ELSE (b1 - 240) * 262144 + (b[2] - 128) * 4096
                            + (b[3] - 128) * 64 + (b[4] - 128)
               bad == \/ (n = 3 /\ (cp < 2048 \/ (cp >= 55296 /\ cp < 57344)))
                      \/ (n = 4 /\ (cp < 65536 \/ cp > 1114111))
               rest == from_utf8(SubSeq(b, n + 1, Len(b)))
           IN IF bad \/ ~rest.ok THEN Err("Utf8Error", 0)
              ELSE Ok(<<cp>> \o rest.val)

\* The base64 standard alphabet: the character of a 6-bit value.
B64Char(v) ==
  IF v < 26 THEN 65 + v
  ELSE IF v < 52 THEN 97 + (v - 26)
  ELSE IF v < 62 THEN 48 + (v - 52)
  ELSE IF v = 62 THEN 43 ELSE 47

\* The 6-bit value of a base64 character, -1 for any other character.
B64Val(c) ==
  IF c >= 65 /\ c <= 90 THEN c - 65
  ELSE IF c >= 97 /\ c <= 122 THEN c - 97 + 26
  ELSE IF c >= 48 /\ c <= 57 THEN c - 48 + 52
  ELSE IF c = 43 THEN 62
  ELSE IF c = 47 THEN 63 ELSE -1

\* base64::encode: standard alphabet, padded.
encode(b) ==
  LET n == Len(b)
      at(i) == IF i <= n THEN b[i] ELSE 0
  IN [i \in 1..(4 * ((n + 2) \div 3)) |->
        LET g == (i - 1) \div 4
            k == (i - 1) % 4
            triple == at(3 * g + 1) * 65536 + at(3 * g + 2) * 256 + at(3 * g + 3)
        IN IF (k = 2 /\ 3 * g + 2 > n) \/ (k = 3 /\ 3 * g + 3 > n)
             THEN 61
             ELSE B64Char(CASE k = 0 -> triple \div 262144
                            [] k = 1 -> (triple \div 4096) % 64
                            [] k = 2 -> (triple \div 64) % 64
                            [] OTHER -> triple % 64)]

\* base64::decode: the bytes of a padded standard-alphabet text, or an error
\* (a character outside the alphabet, a misplaced pad, a length that is not
\* a whole number of quanta).
decode(s) ==
  LET m == Len(s)
      pads == IF m >= 2 /\ s[m] = 61 /\ s[m - 1] = 61 THEN 2
              ELSE IF m >= 1 /\ s[m] = 61 THEN 1 ELSE 0
      val(i) == IF i > m - pads THEN 0 ELSE B64Val(s[i])
  IN IF m % 4 # 0 \/ (\E i \in 1..(m - pads) : B64Val(s[i]) < 0)
       THEN Err("DecodeError", 0)
       ELSE Ok([j \in 1..(3 * (m \div 4) - pads) |->
                 LET g == (j - 1) \div 3
                     k == (j - 1) % 3
                     quad == val(4 * g + 1) * 262144 + val(4 * g + 2) * 4096
                             + val(4 * g + 3) * 64 + val(4 * g + 4)
                 IN CASE k = 0 -> quad \div 65536
                      [] k = 1 -> (quad \div 256) % 256
                      [] OTHER -> quad % 256])

-----------------------------------------------------------------------------
(* The cryptography provider (openssl), as the source uses it.  A key is    *)
(* [alg, bits, id]; a PEM text is "-" label alg size id "-" with label      *)
(* R = RSA PRIVATE KEY (PKCS#1), E = EC PRIVATE KEY (SEC1),                  *)
(* P = PRIVATE KEY (PKCS#8), U = PUBLIC KEY (SPKI).                          *)

Key(alg, bits, id) == [alg |-> alg, bits |-> bits, id |-> id]

\* The character that stands for a PEM label.
Label(l) ==
  CASE l = "RSA PRIVATE KEY" -> 82
    [] l = "EC PRIVATE KEY" -> 69
    [] l = "PRIVATE KEY" -> 80
    [] l = "PUBLIC KEY" -> 85

AlgChar(alg) == IF alg = "rsa" THEN 114 ELSE 101

SizeChar(bits) == IF bits = 2048 THEN 76 ELSE IF bits = 1024 THEN 83 ELSE 67

\* The PEM bytes the provider writes for a key under a label.
PemBytes(label, key) ==
  <<45, label, AlgChar(key.alg), SizeChar(key.bits), 48 + key.id, 45>>

\* The provider's PEM reader: the label and the key of well-formed PEM bytes.
ParsePem(b) ==
  IF /\ Len(b) = 6
     /\ b[1] = 45 /\ b[6] = 45
     /\ b[2] \in {Label("RSA PRIVATE KEY"), Label("EC PRIVATE KEY"), Label("PRIVATE KEY"), Label("PUBLIC KEY")}
     /\ b[3] \in {114, 101}
     /\ b[4] \in {76, 83, 67}
     /\ b[5] \in 49..57
     /\ (b[2] = Label("RSA PRIVATE KEY") => b[3] = 114)
     /\ (b[2] = Label("EC PRIVATE KEY") => b[3] = 101)
     /\ (b[4] = 67 <=> b[3] = 101)
    THEN Ok([label |-> b[2],
             key |-> Key(IF b[3] = 114 THEN "rsa" ELSE "ec",
                         IF b[4] = 76 THEN 2048 ELSE IF b[4] = 83 THEN 1024 ELSE 256,
                         b[5] - 48)])
    ELSE Err("ErrorStack", 0)

\* openssl Rsa::private_key_from_pem: a private key PEM (PKCS#1 or PKCS#8)
\* holding an RSA key.
Rsa_private_key_from_pem(b) ==
  LET p == ParsePem(b)
  IN IF p.ok /\ p.val.label \in {Label("RSA PRIVATE KEY"), Label("PRIVATE KEY")} /\ p.val.key.alg = "rsa"
       THEN Ok(p.val.key) ELSE Err("ErrorStack", 0)

\* openssl EcKey::private_key_from_pem: a private key PEM (SEC1 or PKCS#8)
\* holding an EC key.
EcKey_private_key_from_pem(b) ==
  LET p == ParsePem(b)
  IN IF p.ok /\ p.val.label \in {Label("EC PRIVATE KEY"), Label("PRIVATE KEY")} /\ p.val.key.alg = "ec"
       THEN Ok(p.val.key) ELSE Err("ErrorStack", 0)

\* openssl PKey::public_key_from_pem: a PUBLIC KEY PEM of any algorithm.
PKey_public_key_from_pem(b) ==
  LET p == ParsePem(b)
  IN IF p.ok /\ p.val.label = Label("PUBLIC KEY") THEN Ok(p.val.key) ELSE Err("ErrorStack", 0)

\* MessageDigest::sha256 of the data fed to a signer or verifier; distinct
\* data have distinct digests.
Digest(msg) == <<Len(msg)>> \o msg

\* Signer::sign_to_vec: RSA signs deterministically (PKCS#1 v1.5); ECDSA
\* draws a nonce and writes a DER SEQUENCE (tag 48).
ProviderSign(key, msg, nonce) ==
  IF key.alg = "rsa" THEN <<1, key.id>> \o Digest(msg)
  ELSE <<48, nonce, key.id>> \o Digest(msg)

\* Verifier::verify: 1 = the signature matches, 0 = it does not,
\* -1 = the provider reports an error (an ECDSA signature that is not DER).
ProviderVerify(key, msg, sigbytes) ==
  IF key.alg = "rsa"
    THEN IF sigbytes = <<1, key.id>> \o Digest(msg) THEN 1 ELSE 0
    ELSE IF Len(sigbytes) < 3 \/ sigbytes[1] # 48 THEN -1
         ELSE IF SubSeq(sigbytes, 3, Len(sigbytes)) = <<key.id>> \o Digest(msg)
                THEN 1 ELSE 0

-----------------------------------------------------------------------------
(* key/int_def.rs: the PEM byte holder and the signing engine               *)

\* Pkcs8pemBytes::new
Pkcs8pemBytes_new(private, public) == [private |-> private, public |-> public]

\* Pkcs8pem::new
Pkcs8pem_new(private, public) == [private |-> private, public |-> public]

\* Signing::sign without the signer.update call
Signing_sign_NoUpdate(keypair, data, fault, nonce) ==
  IF fault = "Signer::new" THEN Err("SigningError", 2000)
  ELSE IF fault = "Signer::sign_to_vec" THEN Err("SigningError", 2002)
  ELSE Ok(encode(ProviderSign(keypair, <<>>, nonce)))

\* Signing::sign
Signing_sign(keypair, data, fault, nonce) ==
  IF fault = "Signer::new" THEN Err("SigningError", 2000)
  ELSE IF fault = "Signer::update" THEN Err("SigningError", 2001)
  ELSE IF fault = "Signer::sign_to_vec" THEN Err("SigningError", 2002)
  ELSE Ok(encode(ProviderSign(keypair, as_bytes(data), nonce)))

\* Signing::verify reporting a signature that does not match as an error
Signing_verify_MismatchIsErr(keypair, data, signature, fault) ==
  LET signature_bytes == decode(signature)
  IN IF ~signature_bytes.ok THEN Err("SigningError", 2003)
     ELSE IF fault = "Verifier::new" THEN Err("SigningError", 2004)
     ELSE IF fault = "Verifier::update" THEN Err("SigningError", 2005)
     ELSE
       LET r == IF fault = "Verifier::verify" THEN -1
                ELSE ProviderVerify(keypair, as_bytes(data), signature_bytes.val)
       IN IF r = 1 THEN Ok(TRUE) ELSE Err("SigningError", 2006)

\* Signing::verify taking a signature that does not decode for one that
\* does not match
Signing_verify_DecodeUnchecked(keypair, data, signature, fault) ==
  LET signature_bytes == decode(signature)
  IN IF ~signature_bytes.ok THEN Ok(FALSE)
     ELSE IF fault = "Verifier::new" THEN Err("SigningError", 2004)
     ELSE IF fault = "Verifier::update" THEN Err("SigningError", 2005)
     ELSE
       LET r == IF fault = "Verifier::verify" THEN -1
                ELSE ProviderVerify(keypair, as_bytes(data), signature_bytes.val)
       IN IF r = 1 THEN Ok(TRUE)
          ELSE IF r = 0 THEN Ok(FALSE)
          ELSE Err("SigningError", 2006)

\* Signing::verify with the codes of verifier construction and document
\* feed exchanged
Signing_verify_CodesSwapped(keypair, data, signature, fault) ==
  LET signature_bytes == decode(signature)
  IN IF ~signature_bytes.ok THEN Err("SigningError", 2003)
     ELSE IF fault = "Verifier::new" THEN Err("SigningError", 2005)
     ELSE IF fault = "Verifier::update" THEN Err("SigningError", 2004)
     ELSE
       LET r == IF fault = "Verifier::verify" THEN -1
                ELSE ProviderVerify(keypair, as_bytes(data), signature_bytes.val)
       IN IF r = 1 THEN Ok(TRUE)
          ELSE IF r = 0 THEN Ok(FALSE)
          ELSE Err("SigningError", 2006)

\* Signing::verify
Signing_verify(keypair, data, signature, fault) ==
  LET signature_bytes == decode(signature)
  IN IF ~signature_bytes.ok THEN Err("SigningError", 2003)
     ELSE IF fault = "Verifier::new" THEN Err("SigningError", 2004)
     ELSE IF fault = "Verifier::update" THEN Err("SigningError", 2005)
     ELSE
       LET r == IF fault = "Verifier::verify" THEN -1
                ELSE ProviderVerify(keypair, as_bytes(data), signature_bytes.val)
       IN IF r = 1 THEN Ok(TRUE)
          ELSE IF r = 0 THEN Ok(FALSE)
          ELSE Err("SigningError", 2006)

-----------------------------------------------------------------------------
(* key/rsa.rs                                                              *)

\* A key handle (struct RSA, struct EllipticCurve).  origin and src are
\* history fields: how the handle was made ("new", "pem"), and the handle
\* whose get_pem output it was made from, if any.
Handle(variant, name, pkcs8pem, origin, src) ==
  [variant |-> variant, name |-> name, pkcs8pem |-> pkcs8pem,
   origin |-> origin, src |-> src]

NoKey == [variant |-> "none"]

\* RSA::generate
RSA_generate(id, fault) ==
  IF fault = "Rsa::generate" THEN Err("GenerationError", 1004)
  ELSE IF fault = "private_key_to_pem" THEN Err("GenerationError", 1005)
  ELSE IF fault = "public_key_to_pem" THEN Err("GenerationError", 1006)
  ELSE LET rsa == Key("rsa", 2048, id)
       IN Ok(Pkcs8pemBytes_new(PemBytes(Label("RSA PRIVATE KEY"), rsa),
                               PemBytes(Label("PUBLIC KEY"), rsa)))

\* RSA::new
RSA_new(name, id, fault) ==
  LET pkcs8pem == RSA_generate(id, fault)
  IN IF ~pkcs8pem.ok THEN pkcs8pem
     ELSE Ok(Handle("RSA", name, pkcs8pem.val, "new", None))

\* RSA::create_from_pem
RSA_create_from_pem(name, p, src) ==
  Handle("RSA", name,
         Pkcs8pemBytes_new(as_bytes(p.private), as_bytes(p.public)),
         "pem", src)

\* RSA::get_keypair loading the public PEM when the private PEM is empty
RSA_get_keypair_PublicFallback(self, fault) ==
  LET keypair == IF self.pkcs8pem.private = <<>>
                   THEN PKey_public_key_from_pem(self.pkcs8pem.public)
                   ELSE Rsa_private_key_from_pem(self.pkcs8pem.private)
  IN IF ~keypair.ok THEN Err("SigningError", 2007)
     ELSE IF fault = "PKey::from" THEN Err("SigningError", 2008)
     ELSE Ok(keypair.val)

\* RSA::get_keypair
RSA_get_keypair(self, fault) ==
  LET keypair == Rsa_private_key_from_pem(self.pkcs8pem.private)
  IN IF ~keypair.ok THEN Err("SigningError", 2007)
     ELSE IF fault = "PKey::from" THEN Err("SigningError", 2008)
     ELSE Ok(keypair.val)

\* RSA::sign
RSA_sign(self, data, fault, nonce) ==
  LET keypair == RSA_get_keypair(self, fault)
  IN IF ~keypair.ok THEN keypair
     ELSE Signing_sign(keypair.val, data, fault, nonce)

\* RSA::verify decoding the signature before it loads the key
RSA_verify_DecodeFirst(self, data, signature, fault) ==
  IF ~decode(signature).ok THEN Err("SigningError", 2003)
  ELSE LET keypair == RSA_get_keypair(self, fault)
       IN IF ~keypair.ok THEN keypair
          ELSE Signing_verify(keypair.val, data, signature, fault)

\* RSA::verify
RSA_verify(self, data, signature, fault) ==
  LET keypair == RSA_get_keypair(self, fault)
  IN IF ~keypair.ok THEN keypair
     ELSE Signing_verify(keypair.val, data, signature, fault)

\* RSA::get_pem
RSA_get_pem(self) ==
  LET private_pem == from_utf8(self.pkcs8pem.private)
      public_pem == from_utf8(self.pkcs8pem.public)
  IN IF ~private_pem.ok THEN Err("StringifyError", 3000)
     ELSE IF ~public_pem.ok THEN Err("StringifyError", 3001)
     ELSE Ok(Pkcs8pem_new(private_pem.val, public_pem.val))

-----------------------------------------------------------------------------
(* key/ec.rs                                                               *)

\* EllipticCurve::generate
EC_generate(id, fault) ==
  IF fault = "EcGroup::from_curve_name" THEN Err("GenerationError", 1000)
  ELSE IF fault = "EcKey::generate" THEN Err("GenerationError", 1001)
  ELSE IF fault = "PKey::from_ec_key" THEN Err("GenerationError", 1001)
  ELSE IF fault = "private_key_to_pem" THEN Err("GenerationError", 1002)
  ELSE IF fault = "public_key_to_pem" THEN Err("GenerationError", 1003)
  ELSE LET pkey == Key("ec", 256, id)
       IN Ok(Pkcs8pemBytes_new(PemBytes(Label("PRIVATE KEY"), pkey),
                               PemBytes(Label("PUBLIC KEY"), pkey)))

\* EllipticCurve::new
EC_new(name, id, fault) ==
  LET pkcs8pem == EC_generate(id, fault)
  IN IF ~pkcs8pem.ok THEN pkcs8pem
     ELSE Ok(Handle("EC", name, pkcs8pem.val, "new", None))

\* EllipticCurve::create_from_pem with the two PEMs exchanged
EC_create_from_pem_Swapped(name, p, src) ==
  Handle("EC", name,
         Pkcs8pemBytes_new(as_bytes(p.public), as_bytes(p.private)),
         "pem", src)

\* EllipticCurve::create_from_pem
EC_create_from_pem(name, p, src) ==
  Handle("EC", name,
         Pkcs8pemBytes_new(as_bytes(p.private), as_bytes(p.public)),
         "pem", src)

\* EllipticCurve::get_keypair with its two codes exchanged
EC_get_keypair_CodesSwapped(self, fault) ==
  LET keypair == EcKey_private_key_from_pem(self.pkcs8pem.private)
  IN IF ~keypair.ok THEN Err("SigningError", 2008)
     ELSE IF fault = "PKey::from" THEN Err("SigningError", 2007)
     ELSE Ok(keypair.val)

\* EllipticCurve::get_keypair
EC_get_keypair(self, fault) ==
  LET keypair == EcKey_private_key_from_pem(self.pkcs8pem.private)
  IN IF ~keypair.ok THEN Err("SigningError", 2007)
     ELSE IF fault = "PKey::from" THEN Err("SigningError", 2008)
     ELSE Ok(keypair.val)

\* EllipticCurve::sign reporting a private key that does not load with the
\* code of signer construction
EC_sign_KeyAsSigner(self, data, fault, nonce) ==
  LET keypair == EC_get_keypair(self, fault)
  IN IF ~keypair.ok THEN Err("SigningError", 2000)
     ELSE Signing_sign(keypair.val, data, fault, nonce)

\* EllipticCurve::sign
EC_sign(self, data, fault, nonce) ==
  LET keypair == EC_get_keypair(self, fault)
  IN IF ~keypair.ok THEN keypair
     ELSE Signing_sign(keypair.val, data, fault, nonce)

\* EllipticCurve::verify
EC_verify(self, data, signature, fault) ==
  LET keypair == EC_get_keypair(self, fault)
  IN IF ~keypair.ok THEN keypair
     ELSE Signing_verify(keypair.val, data, signature, fault)

\* EllipticCurve::get_pem
EC_get_pem(self) ==
  LET private_pem == from_utf8(self.pkcs8pem.private)
      public_pem == from_utf8(self.pkcs8pem.public)
  IN IF ~private_pem.ok THEN Err("StringifyError", 3000)
     ELSE IF ~public_pem.ok THEN Err("StringifyError", 3001)
     ELSE Ok(Pkcs8pem_new(private_pem.val, public_pem.val))

-----------------------------------------------------------------------------
(* key/error.rs                                                            *)

\* KeyErrorHandler::get_generation_error
get_generation_error(code) ==
  CASE code = 1000 -> "Error generating Elliptic Curve Group for keygen"
    [] code = 1001 -> "Error generating Elliptic Curve Keypair"
    [] code = 1002 -> "Error generating Elliptic Curve Private PEM"
    [] code = 1003 -> "Error generating Elliptic Curve Public PEM"
    [] code = 1004 -> "Error generating the RSA Key"
    [] code = 1005 -> "Error generating RSA Private PEM"
    [] code = 1006 -> "Error generating RSA Public PEM"
    [] OTHER -> "Unknown Error"

\* get_signing_error without the code of a public key that does not load
get_signing_error_No2008(code) ==
  CASE code = 2000 -> "Error creating signer"
    [] code = 2001 -> "Error passing data to sign"
    [] code = 2002 -> "Error generating signature"
    [] code = 2003 -> "Error decoding signature for verification"
    [] code = 2004 -> "Error creating verifier"
    [] code = 2005 -> "Error passing data to verify"
    [] code = 2006 -> "Signature verification failed"
    [] code = 2007 -> "Error initialising private key"
    [] OTHER -> "Unknown Error"

\* KeyErrorHandler::get_signing_error
get_signing_error(code) ==
  CASE code = 2000 -> "Error creating signer"
    [] code = 2001 -> "Error passing data to sign"
    [] code = 2002 -> "Error generating signature"
    [] code = 2003 -> "Error decoding signature for verification"
    [] code = 2004 -> "Error creating verifier"
    [] code = 2005 -> "Error passing data to verify"
    [] code = 2006 -> "Signature verification failed"
    [] code = 2007 -> "Error initialising private key"
    [] code = 2008 -> "Error initialising public key"
    [] OTHER -> "Unknown Error"

\* KeyErrorHandler::get_stringify_error
get_stringify_error(code) ==
  CASE code = 3000 -> "Error converting private pem to string"
    [] code = 3001 -> "Error converting public pem to string"
    [] code = 3007 -> "Error initialising private key"
    [] code = 3008 -> "Error initialising public key"
    [] OTHER -> "Unknown Error"

\* KeyErrorHandler::get_import_error
get_import_error(code) ==
  CASE code = 4000 -> "Error opening file for import"
    [] code = 4001 -> "Error reading file contents"
    [] code = 4002 -> "Key Type missmatch"
    [] OTHER -> "Unknown Error"

\* KeyErrorHandler::get_export_error
get_export_error(code) ==
  CASE code = 5000 -> "Error generating JSON"
    [] code = 5001 -> "Error preparing the export file for writing"
    [] code = 5002 -> "Error writing to the export file"
    [] OTHER -> "Unknown Error"

\* impl fmt::Display for KeyError
KeyError_fmt(e) ==
  CASE e.kind = "GenerationError" -> "Generation Error - " \o ToString(e.code) \o ": " \o get_generation_error(e.code)
    [] e.kind = "SigningError" -> "Signing Error - " \o ToString(e.code) \o ": " \o get_signing_error(e.code)
    [] e.kind = "StringifyError" -> "Stringify Error - " \o ToString(e.code) \o ": " \o get_stringify_error(e.code)
    [] e.kind = "ImportError" -> "Import Error - " \o ToString(e.code) \o ": " \o get_import_error(e.code)
    [] e.kind = "ExportError" -> "Export Error - " \o ToString(e.code) \o ": " \o get_export_error(e.code)

-----------------------------------------------------------------------------
(* connection/error.rs                                                     *)

\* ConnectionErrorHandler::get_http_error
get_http_error(code) ==
  CASE code = 1000 -> "Error POSTing the transaction"
    [] code = 1001 -> "Error during GET request"
    [] OTHER -> "Unknown Error"

\* ConnectionErrorHandler::get_url_error
get_url_error(code) ==
  CASE code = 2000 -> "Error creating signer"
    [] OTHER -> "Unknown Error"

\* ConnectionErrorHandler::get_response_error
get_response_error(code) ==
  CASE code = 3000 -> "No response body"
    [] code = 3001 -> "The server did not return 200"
    [] OTHER -> "Unknown Error"

\* ConnectionErrorHandler::get_encryption_error
get_encryption_error(code) ==
  CASE code = 4000 -> "Key data missing"
    [] code = 4001 -> "Error creating key data request"
    [] code = 4002 -> "Error processing response"
    [] code = 4003 -> "Unable to parse JSON"
    [] code = 4004 -> "Error preparing key for encryption"
    [] code = 4005 -> "Error creating public key for transaction encryption"
    [] code = 4006 -> "Error generating RSA key for encryption"
    [] code = 4007 -> "Error encrypting transaction"
    [] OTHER -> "Unknown Error"

\* ConnectionErrorHandler::get_encoding_error
get_encoding_error(code) ==
  CASE code = 5000 -> "Error generating JSON"
    [] OTHER -> "Unknown Error"

\* impl fmt::Display for ConnectionError
ConnectionError_fmt(e) ==
  CASE e.kind = "HttpError" -> "HTTP Error - " \o ToString(e.code) \o ": " \o get_http_error(e.code)
    [] e.kind = "UrlError" -> "Url Error - " \o ToString(e.code) \o ": " \o get_url_error(e.code)
    [] e.kind = "ResponseError" -> "Response Error - " \o ToString(e.code) \o ": " \o get_response_error(e.code)
    [] e.kind = "EncryptionError" -> "EncryptionError Error - " \o ToString(e.code) \o ": " \o get_encryption_error(e.code)
    [] e.kind = "EncodingError" -> "Encoding Error - " \o ToString(e.code) \o ": " \o get_encoding_error(e.code)

-----------------------------------------------------------------------------
(* serde_json, as key/import.rs uses it.  A JSON value is                   *)
(* [t, s, m]: t its type, s the text of a string or the digits of a         *)
(* number, m the members [k, v] of an object or the elements of an array.   *)

JNull == [t |-> "null", s |-> <<>>, m |-> <<>>]

JBool(b) == [t |-> IF b THEN "true" ELSE "false", s |-> <<>>, m |-> <<>>]

JNum(digits) == [t |-> "num", s |-> digits, m |-> <<>>]

JStr(chars) == [t |-> "str", s |-> chars, m |-> <<>>]

JArr(elements) == [t |-> "arr", s |-> <<>>, m |-> elements]

JObj(members) == [t |-> "obj", s |-> <<>>, m |-> members]

\* A token of a JSON text: a punctuation mark ("{", "}", "[", "]", ":",
\* ","), a literal ("null", "true", "false"), a string or a number with its
\* characters, or "bad" for text that is none of these.
Token(t, chars) == [t |-> t, s |-> chars]

\* The first position from i on that holds no JSON whitespace.
SkipWs(s, i) ==
  CHOOSE j \in i..(Len(s) + 1) :
    /\ j = Len(s) + 1 \/ s[j] \notin {32, 9, 10, 13}
    /\ \A k \in i..(j - 1) : s[k] \in {32, 9, 10, 13}

\* The text at i is the word w.
IsWord(s, i, w) == i + Len(w) - 1 <= Len(s) /\ SubSeq(s, i, i + Len(w) - 1) = w

\* The position after the string that starts at the quote at i, 0 when the
\* string does not close or holds a control character (the texts read hold
\* no escape).
StringEnd(s, i) ==
  LET closing == {j \in (i + 1)..Len(s) : s[j] = 34}
  IN IF closing = {} THEN 0
     ELSE LET j == CHOOSE c \in closing : \A d \in closing : c <= d
          IN IF \E k \in (i + 1)..(j - 1) : s[k] < 32 \/ s[k] = 92 THEN 0 ELSE j + 1

\* The position after the run of digits that starts at i, 0 when the run
\* has a leading 0.
NumberEnd(s, i) ==
  LET j == CHOOSE e \in (i + 1)..(Len(s) + 1) :
             /\ e = Len(s) + 1 \/ s[e] \notin 48..57
             /\ \A k \in i..(e - 1) : s[k] \in 48..57
  IN IF s[i] = 48 /\ j > i + 1 THEN 0 ELSE j

RECURSIVE Tokens(_, _)
\* The tokens of the text from position i on.
Tokens(s, i) ==
  LET b == SkipWs(s, i)
  IN IF b > Len(s) THEN <<>>
     ELSE IF s[b] \in {123, 125, 91, 93, 58, 44}
       THEN <<Token(CASE s[b] = 123 -> "{" [] s[b] = 125 -> "}" [] s[b] = 91 -> "["
                      [] s[b] = 93 -> "]" [] s[b] = 58 -> ":" [] s[b] = 44 -> ",", <<>>)>>
              \o Tokens(s, b + 1)
     ELSE IF s[b] = 34 THEN
       IF StringEnd(s, b) = 0 THEN <<Token("bad", <<>>)>>
       ELSE <<Token("str", SubSeq(s, b + 1, StringEnd(s, b) - 2))>> \o Tokens(s, StringEnd(s, b))
     ELSE IF s[b] \in 48..57 THEN
       IF NumberEnd(s, b) = 0 THEN <<Token("bad", <<>>)>>
       ELSE <<Token("num", SubSeq(s, b, NumberEnd(s, b) - 1))>> \o Tokens(s, NumberEnd(s, b))
     ELSE IF IsWord(s, b, <<110, 117, 108, 108>>) THEN <<Token("null", <<>>)>> \o Tokens(s, b + 4)
     ELSE IF IsWord(s, b, <<116, 114, 117, 101>>) THEN <<Token("true", <<>>)>> \o Tokens(s, b + 4)
     ELSE IF IsWord(s, b, <<102, 97, 108, 115, 101>>)
       THEN <<Token("false", <<>>)>> \o Tokens(s, b + 5)
     ELSE <<Token("bad", <<>>)>>

\* An object or array being read: its members so far and, in an object,
\* the key whose value comes next.
Frame(t, m, k) == [t |-> t, m |-> m, k |-> k]

RECURSIVE Build(_, _, _, _, _)
\* The value that the tokens from the n-th on complete.  stack holds the
\* objects and arrays that are open, innermost last; mode is what may come
\* next: "value", "valueOrEnd" (after "["), "key", "keyOrEnd" (after "{"),
\* "colon", "commaOrEnd", or "end" once the value read is result.
Build(tok, n, stack, mode, result) ==
  IF n > Len(tok) THEN (IF mode = "end" THEN Ok(result) ELSE Err("serde_json::Error", 0))
  ELSE
    LET t == tok[n]
        top == stack[Len(stack)]
        below == SubSeq(stack, 1, Len(stack) - 1)
        \* a value is complete: it is the result, or a member of the
        \* innermost open object or array
        Completed(v, open) ==
          IF open = <<>> THEN Build(tok, n + 1, <<>>, "end", v)
          ELSE LET in == open[Len(open)]
               IN Build(tok, n + 1,
                        [open EXCEPT ![Len(open)] =
                           Frame(in.t, Append(in.m, [k |-> in.k, v |-> v]), <<>>)],
                        "commaOrEnd", JNull)
    IN IF mode \in {"value", "valueOrEnd"} THEN
         CASE t.t = "str" -> Completed(JStr(t.s), stack)
           [] t.t = "num" -> Completed(JNum(t.s), stack)
           [] t.t = "null" -> Completed(JNull, stack)
           [] t.t = "true" -> Completed(JBool(TRUE), stack)
           [] t.t = "false" -> Completed(JBool(FALSE), stack)
           [] t.t = "{" -> Build(tok, n + 1, Append(stack, Frame("obj", <<>>, <<>>)),
                                 "keyOrEnd", JNull)
           [] t.t = "[" -> Build(tok, n + 1, Append(stack, Frame("arr", <<>>, <<>>)),
                                 "valueOrEnd", JNull)
           [] t.t = "]" /\ mode = "valueOrEnd" -> Completed(JArr(<<>>), below)
           [] OTHER -> Err("serde_json::Error", 0)
       ELSE IF mode \in {"key", "keyOrEnd"} THEN
         CASE t.t = "str" -> Build(tok, n + 1,
                                   [stack EXCEPT ![Len(stack)] = Frame(top.t, top.m, t.s)],
                                   "colon", JNull)
           [] t.t = "}" /\ mode = "keyOrEnd" -> Completed(JObj(<<>>), below)
           [] OTHER -> Err("serde_json::Error", 0)
       ELSE IF mode = "colon" THEN
         IF t.t = ":" THEN Build(tok, n + 1, stack, "value", JNull)
         ELSE Err("serde_json::Error", 0)
       ELSE IF mode = "commaOrEnd" THEN
         CASE t.t = "," -> Build(tok, n + 1, stack,
                                 IF top.t = "obj" THEN "key" ELSE "value", JNull)
           [] t.t = "}" /\ top.t = "obj" -> Completed(JObj(top.m), below)
           [] t.t = "]" /\ top.t = "arr" -> Completed(JArr(top.m), below)
           [] OTHER -> Err("serde_json::Error", 0)
       ELSE Err("serde_json::Error", 0)

\* serde_json::from_str: one value, with nothing but whitespace around it.
from_str(s) == Build(Tokens(s, 1), 1, <<>>, "value", JNull)

\* Value indexed by a key: the member of an object under that key (the
\* last one when the key is repeated), Null for anything else.
Index(v, key) ==
  LET at == {i \in 1..Len(v.m) : v.m[i].k = key}
  IN IF v.t # "obj" \/ at = {} THEN JNull
     ELSE v.m[CHOOSE i \in at : \A j \in at : j <= i].v

\* Value::as_str
as_str(v) == IF v.t = "str" THEN Some(v.s) ELSE None

RECURSIVE to_string(_)
\* Value::to_string: the compact JSON text of a value.
to_string(v) ==
  LET joined[n \in 0..Len(v.m)] ==
        IF n = 0 THEN <<>>
        ELSE joined[n - 1] \o (IF n > 1 THEN <<44>> ELSE <<>>)
               \o (IF v.t = "obj" THEN <<34>> \o v.m[n].k \o <<34, 58>> ELSE <<>>)
               \o to_string(v.m[n].v)
  IN CASE v.t = "null" -> <<110, 117, 108, 108>>
       [] v.t = "true" -> <<116, 114, 117, 101>>
       [] v.t = "false" -> <<102, 97, 108, 115, 101>>
       [] v.t = "num" -> v.s
       [] v.t = "str" -> <<34>> \o v.s \o <<34>>
       [] v.t = "arr" -> <<91>> \o joined[Len(v.m)] \o <<93>>
       [] v.t = "obj" -> <<123>> \o joined[Len(v.m)] \o <<125>>

-----------------------------------------------------------------------------
(* key/import.rs.  The file at the path is its text and the call of the     *)
(* file system that fails on it, if any.                                    *)

\* struct ImportData
ImportData(name, pkcs8pem) == [name |-> name, pkcs8pem |-> pkcs8pem]

\* import without the comparison of the type field
import_TypeUnchecked(contents, expected_type, fault) ==
  IF fault = "File::open" THEN Err("ImportError", 4000)
  ELSE IF fault = "read_to_string" THEN Err("ImportError", 4001)
  ELSE
    LET data_obj == from_str(contents)
    IN IF ~data_obj.ok THEN Err("ImportError", 4001)
       ELSE
         LET name == as_str(Index(data_obj.val, <<110, 97, 109, 101>>))
             pem_public == as_str(Index(Index(data_obj.val, <<112, 101, 109>>), <<112, 117, 98, 108, 105, 99>>))
             pem_private == as_str(Index(Index(data_obj.val, <<112, 101, 109>>), <<112, 114, 105, 118, 97, 116, 101>>))
         IN IF ~name.some THEN Err("ImportError", 4001)
            ELSE IF ~pem_public.some THEN Err("ImportError", 4001)
            ELSE IF ~pem_private.some THEN Err("ImportError", 4001)
            ELSE Ok(ImportData(name.val, Pkcs8pem_new(pem_private.val, pem_public.val)))

\* import reporting a file that does not open as one that does not read
import_OpenAsRead(contents, expected_type, fault) ==
  IF fault = "File::open" THEN Err("ImportError", 4001)
  ELSE IF fault = "read_to_string" THEN Err("ImportError", 4001)
  ELSE
    LET data_obj == from_str(contents)
    IN IF ~data_obj.ok THEN Err("ImportError", 4001)
       ELSE
         LET name == as_str(Index(data_obj.val, <<110, 97, 109, 101>>))
             pem_public == as_str(Index(Index(data_obj.val, <<112, 101, 109>>), <<112, 117, 98, 108, 105, 99>>))
             pem_private == as_str(Index(Index(data_obj.val, <<112, 101, 109>>), <<112, 114, 105, 118, 97, 116, 101>>))
         IN IF ~name.some THEN Err("ImportError", 4001)
            ELSE IF ~pem_public.some THEN Err("ImportError", 4001)
            ELSE IF ~pem_private.some THEN Err("ImportError", 4001)
            ELSE IF to_string(Index(data_obj.val, <<116, 121, 112, 101>>)) # expected_type
              THEN Err("ImportError", 4002)
            ELSE Ok(ImportData(name.val, Pkcs8pem_new(pem_private.val, pem_public.val)))

\* import
import(contents, expected_type, fault) ==
  IF fault = "File::open" THEN Err("ImportError", 4000)
  ELSE IF fault = "read_to_string" THEN Err("ImportError", 4001)
  ELSE
    LET data_obj == from_str(contents)
    IN IF ~data_obj.ok THEN Err("ImportError", 4001)
       ELSE
         LET name == as_str(Index(data_obj.val, <<110, 97, 109, 101>>))
             pem_public == as_str(Index(Index(data_obj.val, <<112, 101, 109>>), <<112, 117, 98, 108, 105, 99>>))
             pem_private == as_str(Index(Index(data_obj.val, <<112, 101, 109>>), <<112, 114, 105, 118, 97, 116, 101>>))
         IN IF ~name.some THEN Err("ImportError", 4001)
            ELSE IF ~pem_public.some THEN Err("ImportError", 4001)
            ELSE IF ~pem_private.some THEN Err("ImportError", 4001)
            ELSE IF to_string(Index(data_obj.val, <<116, 121, 112, 101>>)) # expected_type
              THEN Err("ImportError", 4002)
            ELSE Ok(ImportData(name.val, Pkcs8pem_new(pem_private.val, pem_public.val)))

\* The text "rsa" in quotes, and "ec" in quotes.
RSA_TYPE == <<34, 114, 115, 97, 34>>

EC_TYPE == <<34, 101, 99, 34>>

\* import_rsa
import_rsa(contents, fault) ==
  LET rsa_data == import(contents, RSA_TYPE, fault)
  IN IF ~rsa_data.ok THEN rsa_data
     ELSE Ok(RSA_create_from_pem(rsa_data.val.name, rsa_data.val.pkcs8pem, None))

\* import_ec
import_ec(contents, fault) ==
  LET ec_data == import(contents, EC_TYPE, fault)
  IN IF ~ec_data.ok THEN ec_data
     ELSE Ok(EC_create_from_pem(ec_data.val.name, ec_data.val.pkcs8pem, None))

-----------------------------------------------------------------------------
(* connection/transaction.rs                                               *)

\* Transaction::new
Transaction_new(tx_data) == [data |-> tx_data]

\* Transaction::get_data
Transaction_get_data(self) == self.data

-----------------------------------------------------------------------------
(* The HTTP transport (reqwest) and JSON (serde_json), as the source uses  *)
(* them.  A response is [transport, status, readable, body]: transport is   *)
(* FALSE when the request itself fails, readable is FALSE when text()       *)
(* fails.                                                                   *)

Response(transport, status, readable, body) ==
  [transport |-> transport, status |-> status, readable |-> readable, body |-> body]

\* StatusCode::is_success
is_success(status) == status >= 200 /\ status < 300

\* A request as the transport sees it; by is a history field naming the
\* function that issued it.
Request(method, url, headers, body, by) ==
  [method |-> method, url |-> url, headers |-> headers, body |-> body, by |-> by]

\* The text {"pem":"<s>"}
JsonPemText(s) == <<123, 34, 112, 101, 109, 34, 58, 34>> \o s \o <<34, 125>>

\* serde_json::from_str followed by data_obj["pem"].as_str(), on the bodies
\* a node can answer with: {"pem":"<s>"}, {"pem":<digit>}, {} and text that
\* is not JSON.
JsonPem(body) ==
  LET n == Len(body)
  IN IF body = <<123, 125>> THEN [json |-> TRUE, pem |-> None]
     ELSE IF n = 9 /\ SubSeq(body, 1, 7) = <<123, 34, 112, 101, 109, 34, 58>>
                /\ body[8] \in 48..57 /\ body[9] = 125
       THEN [json |-> TRUE, pem |-> None]
     ELSE IF n >= 10 /\ SubSeq(body, 1, 8) = <<123, 34, 112, 101, 109, 34, 58, 34>>
                /\ SubSeq(body, n - 1, n) = <<34, 125>>
                /\ \A i \in 9..(n - 2) : body[i] \notin {34, 92} /\ body[i] >= 32
       THEN [json |-> TRUE, pem |-> Some(SubSeq(body, 9, n - 2))]
     ELSE [json |-> FALSE, pem |-> None]

\* Rsa::size: the modulus length in bytes.
RsaSize(rsa) == rsa.bits \div 8

\* Rsa::public_encrypt with Padding::PKCS1_OAEP into a buffer of RsaSize
\* bytes: fails when the input exceeds the modulus length less the OAEP
\* overhead (2 * 20 + 2 bytes); otherwise the whole buffer is written.
public_encrypt(rsa, chunk, seed) ==
  IF Len(chunk) > RsaSize(rsa) - 42 THEN Err("ErrorStack", 0)
  ELSE Ok([i \in 1..RsaSize(rsa) |->
            IF i = 1 THEN 0
            ELSE IF i = 2 THEN seed
            ELSE IF i = 3 THEN Len(chunk)
            ELSE IF i - 3 <= Len(chunk)
              THEN (chunk[i - 3] + rsa.id + seed) % 256
              ELSE 0])

-----------------------------------------------------------------------------
(* connection/connection.rs                                                *)

ChunkSize == 100

\* slice::chunks
chunks(b, n) ==
  [i \in 1..((Len(b) + n - 1) \div n) |->
     SubSeq(b, (i - 1) * n + 1, IF i * n < Len(b) THEN i * n ELSE Len(b))]

StatusPath == <<47, 97, 47, 115, 116, 97, 116, 117, 115>>

\* struct NodeKeyData
NodeKeyData(encryption, p) == [encryption |-> encryption, pem |-> p]

\* struct Connection
ConnectionStruct(url, enc, node_key_data) ==
  [url |-> url, encrypt |-> enc, node_key_data |-> node_key_data]

\* What one call did: its return value and the requests it issued, in order.
Ran(res, rq) == [res |-> res, reqs |-> rq]

\* Connection::get_node_key_data without the status check
get_node_key_data_NoStatusCheck(url, response) ==
  LET rq == <<Request("GET", url \o StatusPath, {}, <<>>, "get_node_key_data")>>
  IN IF ~response.transport THEN Ran(Err("EncryptionError", 4001), rq)
     ELSE IF ~response.readable THEN Ran(Err("EncryptionError", 4002), rq)
     ELSE LET data_obj == JsonPem(response.body)
          IN IF ~data_obj.json THEN Ran(Err("EncryptionError", 4003), rq)
             ELSE IF ~data_obj.pem.some THEN Ran(Err("EncryptionError", 4003), rq)
             ELSE Ran(Ok(NodeKeyData("rsa", data_obj.pem.val)), rq)

\* Connection::get_node_key_data repeating the GET after a transport failure
get_node_key_data_Retries(url, response) ==
  LET rq == <<Request("GET", url \o StatusPath, {}, <<>>, "get_node_key_data")>>
  IN IF ~response.transport THEN Ran(Err("EncryptionError", 4001), rq \o rq)
     ELSE IF ~is_success(response.status) THEN Ran(Err("ResponseError", 3001), rq)
     ELSE IF ~response.readable THEN Ran(Err("EncryptionError", 4002), rq)
     ELSE LET data_obj == JsonPem(response.body)
          IN IF ~data_obj.json THEN Ran(Err("EncryptionError", 4003), rq)
             ELSE IF ~data_obj.pem.some THEN Ran(Err("EncryptionError", 4003), rq)
             ELSE Ran(Ok(NodeKeyData("rsa", data_obj.pem.val)), rq)

\* Connection::get_node_key_data
get_node_key_data(url, response) ==
  LET rq == <<Request("GET", url \o StatusPath, {}, <<>>, "get_node_key_data")>>
  IN IF ~response.transport THEN Ran(Err("EncryptionError", 4001), rq)
     ELSE IF ~is_success(response.status) THEN Ran(Err("ResponseError", 3001), rq)
     ELSE IF ~response.readable THEN Ran(Err("EncryptionError", 4002), rq)
     ELSE LET data_obj == JsonPem(response.body)
          IN IF ~data_obj.json THEN Ran(Err("EncryptionError", 4003), rq)
             ELSE IF ~data_obj.pem.some THEN Ran(Err("EncryptionError", 4003), rq)
             ELSE Ran(Ok(NodeKeyData("rsa", data_obj.pem.val)), rq)

\* Connection::test_connection discarding the outcome of the GET
test_connection_IgnoresError(connection, response) ==
  Ran(Ok(TRUE),
      <<Request("GET", connection.url \o StatusPath, {}, <<>>, "test_connection")>>)

\* Connection::test_connection requiring a success status
test_connection_ChecksStatus(connection, response) ==
  LET rq == <<Request("GET", connection.url \o StatusPath, {}, <<>>, "test_connection")>>
  IN IF response.transport /\ is_success(response.status) THEN Ran(Ok(TRUE), rq)
     ELSE Ran(Err("HttpError", 1001), rq)

\* Connection::test_connection
test_connection(connection, response) ==
  LET rq == <<Request("GET", connection.url \o StatusPath, {}, <<>>, "test_connection")>>
  IN IF response.transport THEN Ran(Ok(TRUE), rq)
     ELSE Ran(Err("HttpError", 1001), rq)

\* Connection::new probing before it fetches the node key
Connection_new_ProbeFirst(url, enc, key_response, probe_response) ==
  LET tested == test_connection(ConnectionStruct(url, enc, None), probe_response)
      fetched == IF enc THEN get_node_key_data(url, key_response)
                 ELSE Ran(Ok(None), <<>>)
  IN IF ~tested.res.ok THEN tested
     ELSE IF ~fetched.res.ok THEN Ran(fetched.res, tested.reqs \o fetched.reqs)
     ELSE Ran(Ok(ConnectionStruct(url, enc,
                                  IF enc THEN Some(fetched.res.val) ELSE None)),
              tested.reqs \o fetched.reqs)

\* Connection::new dropping the key data it fetched
Connection_new_NoCache(url, enc, key_response, probe_response) ==
  LET fetched == IF enc THEN get_node_key_data(url, key_response)
                 ELSE Ran(Ok(None), <<>>)
  IN IF ~fetched.res.ok THEN fetched
     ELSE
       LET connection == ConnectionStruct(url, enc, None)
           tested == test_connection(connection, probe_response)
       IN IF ~tested.res.ok THEN Ran(tested.res, fetched.reqs \o tested.reqs)
          ELSE Ran(Ok(connection), fetched.reqs \o tested.reqs)

\* Connection::new
Connection_new(url, enc, key_response, probe_response) ==
  LET fetched == IF enc THEN get_node_key_data(url, key_response)
                 ELSE Ran(Ok(None), <<>>)
  IN IF ~fetched.res.ok THEN fetched
     ELSE
       LET node_key_data == IF enc THEN Some(fetched.res.val) ELSE None
           connection == ConnectionStruct(url, enc, node_key_data)
           tested == test_connection(connection, probe_response)
       IN IF ~tested.res.ok THEN Ran(tested.res, fetched.reqs \o tested.reqs)
          ELSE Ran(Ok(connection), fetched.reqs \o tested.reqs)

RECURSIVE encrypt_chunks(_, _, _, _)
\* The loop of Connection::encrypt over the chunks still to encrypt.
encrypt_chunks(rsa, tx_chunks, seed, encrypted_data_holder) ==
  IF tx_chunks = <<>> THEN Ok(encrypted_data_holder)
  ELSE LET buffer == public_encrypt(rsa, Head(tx_chunks), seed)
       IN IF ~buffer.ok THEN Err("EncryptionError", 4007)
          ELSE encrypt_chunks(rsa, Tail(tx_chunks), seed,
                              encrypted_data_holder \o encode(buffer.val) \o <<124>>)

\* Connection::encrypt returning the holder with its final separator
encrypt_KeepsLastBar(node_key_data, tx, seed) ==
  LET p == decode(node_key_data.pem)
  IN IF ~p.ok THEN Err("EncryptionError", 4004)
     ELSE
       LET key == PKey_public_key_from_pem(p.val)
       IN IF ~key.ok THEN Err("EncryptionError", 4005)
          ELSE IF key.val.alg # "rsa" THEN Err("EncryptionError", 4006)
          ELSE encrypt_chunks(key.val, chunks(as_bytes(tx), ChunkSize), seed, <<>>)

\* Connection::encrypt reporting a key that is not RSA with the code of a
\* PEM that does not load
encrypt_Conflates(node_key_data, tx, seed) ==
  LET p == decode(node_key_data.pem)
  IN IF ~p.ok THEN Err("EncryptionError", 4004)
     ELSE
       LET key == PKey_public_key_from_pem(p.val)
       IN IF ~key.ok THEN Err("EncryptionError", 4005)
          ELSE IF key.val.alg # "rsa" THEN Err("EncryptionError", 4005)
          ELSE
            LET tx_chunks == chunks(as_bytes(tx), ChunkSize)
                holder == encrypt_chunks(key.val, tx_chunks, seed, <<>>)
            IN IF ~holder.ok THEN holder
               ELSE IF Len(holder.val) = 0 THEN Panic
               ELSE Ok(SubSeq(holder.val, 1, Len(holder.val) - 1))

\* Connection::encrypt
encrypt(node_key_data, tx, seed) ==
  LET p == decode(node_key_data.pem)
  IN IF ~p.ok THEN Err("EncryptionError", 4004)
     ELSE
       LET key == PKey_public_key_from_pem(p.val)
       IN IF ~key.ok THEN Err("EncryptionError", 4005)
          ELSE IF key.val.alg # "rsa" THEN Err("EncryptionError", 4006)
          ELSE
            LET tx_chunks == chunks(as_bytes(tx), ChunkSize)
                holder == encrypt_chunks(key.val, tx_chunks, seed, <<>>)
            IN IF ~holder.ok THEN holder
               \* [0..(len - 1)] with len = 0: the subtraction overflows or
               \* the slice end is out of range; both builds panic.
               ELSE IF Len(holder.val) = 0 THEN Panic
               ELSE Ok(SubSeq(holder.val, 1, Len(holder.val) - 1))

\* Connection::send_transaction setting the header on every POST
send_transaction_AlwaysHeader(self, tx, seed, response) ==
  LET data == Transaction_get_data(tx)
      key_missing == self.encrypt /\ ~self.node_key_data.some
      post_data == IF self.encrypt /\ ~key_missing
                     THEN encrypt(self.node_key_data.val, data, seed)
                     ELSE Ok(data)
  IN IF key_missing THEN Ran(Err("EncryptionError", 4000), <<>>)
     ELSE IF ~post_data.ok THEN Ran(post_data, <<>>)
     ELSE
       LET rq == <<Request("POST", self.url, {<<"X-Activeledger-Encrypt", "1">>},
                           post_data.val, "send_transaction")>>
       IN IF ~response.transport THEN Ran(Err("HttpError", 1000), rq)
          ELSE IF is_success(response.status)
            THEN IF response.readable THEN Ran(Ok(response.body), rq)
                 ELSE Ran(Err("ResponseError", 3000), rq)
            ELSE Ran(Err("ResponseError", 3001), rq)

\* Connection::send_transaction never setting the header
send_transaction_NoHeader(self, tx, seed, response) ==
  LET data == Transaction_get_data(tx)
      key_missing == self.encrypt /\ ~self.node_key_data.some
      post_data == IF self.encrypt /\ ~key_missing
                     THEN encrypt(self.node_key_data.val, data, seed)
                     ELSE Ok(data)
  IN IF key_missing THEN Ran(Err("EncryptionError", 4000), <<>>)
     ELSE IF ~post_data.ok THEN Ran(post_data, <<>>)
     ELSE
       LET rq == <<Request("POST", self.url, {}, post_data.val, "send_transaction")>>
       IN IF ~response.transport THEN Ran(Err("HttpError", 1000), rq)
          ELSE IF is_success(response.status)
            THEN IF response.readable THEN Ran(Ok(response.body), rq)
                 ELSE Ran(Err("ResponseError", 3000), rq)
            ELSE Ran(Err("ResponseError", 3001), rq)

\* Connection::send_transaction returning the body whatever the status
send_transaction_StatusUnchecked(self, tx, seed, response) ==
  LET data == Transaction_get_data(tx)
      key_missing == self.encrypt /\ ~self.node_key_data.some
      post_data == IF self.encrypt /\ ~key_missing
                     THEN encrypt(self.node_key_data.val, data, seed)
                     ELSE Ok(data)
      headers == IF self.encrypt THEN {<<"X-Activeledger-Encrypt", "1">>} ELSE {}
  IN IF key_missing THEN Ran(Err("EncryptionError", 4000), <<>>)
     ELSE IF ~post_data.ok THEN Ran(post_data, <<>>)
     ELSE
       LET rq == <<Request("POST", self.url, headers, post_data.val, "send_transaction")>>
       IN IF ~response.transport THEN Ran(Err("HttpError", 1000), rq)
          ELSE IF response.readable THEN Ran(Ok(response.body), rq)
          ELSE Ran(Err("ResponseError", 3000), rq)

\* Connection::send_transaction posting the plain text when no key is cached
send_transaction_SendsPlain(self, tx, seed, response) ==
  LET data == Transaction_get_data(tx)
      key_missing == self.encrypt /\ ~self.node_key_data.some
      post_data == IF self.encrypt /\ ~key_missing
                     THEN encrypt(self.node_key_data.val, data, seed)
                     ELSE Ok(data)
      headers == IF self.encrypt THEN {<<"X-Activeledger-Encrypt", "1">>} ELSE {}
  IN IF ~post_data.ok THEN Ran(post_data, <<>>)
     ELSE
       LET rq == <<Request("POST", self.url, headers, post_data.val, "send_transaction")>>
       IN IF ~response.transport THEN Ran(Err("HttpError", 1000), rq)
          ELSE IF is_success(response.status)
            THEN IF response.readable THEN Ran(Ok(response.body), rq)
                 ELSE Ran(Err("ResponseError", 3000), rq)
            ELSE Ran(Err("ResponseError", 3001), rq)

\* Connection::send_transaction posting the text it was given after it
\* encrypted it
send_transaction_PlainBody(self, tx, seed, response) ==
  LET data == Transaction_get_data(tx)
      key_missing == self.encrypt /\ ~self.node_key_data.some
      post_data == IF self.encrypt /\ ~key_missing
                     THEN encrypt(self.node_key_data.val, data, seed)
                     ELSE Ok(data)
      headers == IF self.encrypt THEN {<<"X-Activeledger-Encrypt", "1">>} ELSE {}
  IN IF key_missing THEN Ran(Err("EncryptionError", 4000), <<>>)
     ELSE IF ~post_data.ok THEN Ran(post_data, <<>>)
     ELSE
       LET rq == <<Request("POST", self.url, headers, data, "send_transaction")>>
       IN IF ~response.transport THEN Ran(Err("HttpError", 1000), rq)
          ELSE IF is_success(response.status)
            THEN IF response.readable THEN Ran(Ok(response.body), rq)
                 ELSE Ran(Err("ResponseError", 3000), rq)
            ELSE Ran(Err("ResponseError", 3001), rq)

\* Connection::send_transaction
send_transaction(self, tx, seed, response) ==
  LET data == Transaction_get_data(tx)
      key_missing == self.encrypt /\ ~self.node_key_data.some
      post_data == IF self.encrypt /\ ~key_missing
                     THEN encrypt(self.node_key_data.val, data, seed)
                     ELSE Ok(data)
      headers == IF self.encrypt THEN {<<"X-Activeledger-Encrypt", "1">>} ELSE {}
  IN IF key_missing THEN Ran(Err("EncryptionError", 4000), <<>>)
     ELSE IF ~post_data.ok THEN Ran(post_data, <<>>)
     ELSE
       LET rq == <<Request("POST", self.url, headers, post_data.val, "send_transaction")>>
       IN IF ~response.transport THEN Ran(Err("HttpError", 1000), rq)
          ELSE IF is_success(response.status)
            THEN IF response.readable THEN Ran(Ok(response.body), rq)
                 ELSE Ran(Err("ResponseError", 3000), rq)
            ELSE Ran(Err("ResponseError", 3001), rq)

-----------------------------------------------------------------------------
(* Callers of the key interface: handle k (slot 1) is made by new or by    *)
(* create_from_pem on a given PEM pair, handle k2 (slot 2) by               *)
(* create_from_pem on the PEM pair that get_pem returned for k.             *)

NumKeys == 1

NumNonces == 2

KeyIds == 1..NumKeys

Nonces == 1..NumNonces

Variants == {"RSA", "EC"}

KeyName == <<107>>

\* Documents to sign: "", "a", "e-acute" (two UTF-8 bytes).
Docs == {<<>>, <<97>>, <<233>>}

\* Signature texts that are not base64: "!!!!" and "a|b=".
NonBase64Sigs == {<<33, 33, 33, 33>>, <<97, 124, 98, 61>>}

\* A base64 text that no key produced: "CQkJ".
ForeignSigs == {encode(<<9, 9, 9>>)}

Text(b) == from_utf8(b).val

\* PEM pairs handed to create_from_pem: empty, not PEM, an RSA pair
\* (PKCS#8), an EC pair (SEC1), a public PEM alone, and text outside ASCII.
PemInputs ==
  {Pkcs8pem_new(<<>>, <<>>),
   Pkcs8pem_new(<<120, 120>>, <<120, 120>>),
   Pkcs8pem_new(Text(PemBytes(Label("PRIVATE KEY"), Key("rsa", 2048, 1))),
                Text(PemBytes(Label("PUBLIC KEY"), Key("rsa", 2048, 1)))),
   Pkcs8pem_new(Text(PemBytes(Label("EC PRIVATE KEY"), Key("ec", 256, 1))),
                Text(PemBytes(Label("PUBLIC KEY"), Key("ec", 256, 1)))),
   Pkcs8pem_new(<<>>, Text(PemBytes(Label("PUBLIC KEY"), Key("rsa", 2048, 1)))),
   Pkcs8pem_new(<<233, 8364>>, <<128512>>)}

\* A JSON text in quotes.
Quoted(chars) == <<34>> \o chars \o <<34>>

RECURSIVE Members(_)
\* The members of a JSON object text: the fields <<key, value text>> that
\* are present (an absent field has no value text), with commas between.
Members(fields) ==
  IF fields = <<>> THEN <<>>
  ELSE LET rest == Members(Tail(fields))
       IN IF fields[1][2] = <<>> THEN rest
          ELSE Quoted(fields[1][1]) \o <<58>> \o fields[1][2]
                 \o (IF rest = <<>> THEN <<>> ELSE <<44>> \o rest)

Object(fields) == <<123>> \o Members(fields) \o <<125>>

\* A key file with the fields the library exports; a field is left out
\* when its value text is empty.
KeyFile(name, type, private, public) ==
  Object(<<<<<<110, 97, 109, 101>>, name>>, <<<<116, 121, 112, 101>>, type>>,
           <<<<112, 101, 109>>, Object(<<<<<<112, 114, 105, 118, 97, 116, 101>>, private>>, <<<<112, 117, 98, 108, 105, 99>>, public>>>>)>>>>)

\* The PEM pair of a variant's key file: the pair create_from_pem is given.
FilePem(variant) ==
  IF variant = "RSA"
    THEN Pkcs8pem_new(Text(PemBytes(Label("PRIVATE KEY"), Key("rsa", 2048, 1))),
                      Text(PemBytes(Label("PUBLIC KEY"), Key("rsa", 2048, 1))))
    ELSE Pkcs8pem_new(Text(PemBytes(Label("EC PRIVATE KEY"), Key("ec", 256, 1))),
                      Text(PemBytes(Label("PUBLIC KEY"), Key("ec", 256, 1))))

\* The well-formed key file of a variant.
GoodFile(variant) ==
  KeyFile(Quoted(KeyName), IF variant = "RSA" THEN RSA_TYPE ELSE EC_TYPE,
          Quoted(FilePem(variant).private), Quoted(FilePem(variant).public))

\* The same file as a text editor would lay it out.
SpacedFile(variant) ==
  <<32, 123, 10, 9>> \o Members(<<<<<<112, 101, 109>>, <<32>> \o Object(<<<<<<112, 114, 105, 118, 97, 116, 101>>, Quoted(FilePem(variant).private)>>,
                                                      <<<<112, 117, 98, 108, 105, 99>>, Quoted(FilePem(variant).public)>>>>)>>>>)
    \o <<32, 44, 13, 10>> \o Members(<<<<<<116, 121, 112, 101>>, IF variant = "RSA" THEN RSA_TYPE ELSE EC_TYPE>>>>)
    \o <<44, 32>> \o Members(<<<<<<110, 97, 109, 101>>, Quoted(KeyName)>>>>) \o <<10, 125, 10>>

\* Files import is given: the well-formed files of both variants; files
\* whose type is "RSA", a number, null, an object or missing; files whose
\* name or PEM halves are missing or not strings, with a type of either
\* variant; a file whose pem is a string; and texts that are not one JSON
\* value: "", "xx", "{", "[]x", a file cut short, a file with a second
\* value after it. "[]" and "7" are JSON but hold no fields.
ImportFiles ==
  UNION {{GoodFile(v), SpacedFile(v)} : v \in Variants}
    \cup {KeyFile(Quoted(KeyName), t, Quoted(FilePem("RSA").private), Quoted(FilePem("RSA").public)) :
            t \in {Quoted(<<82, 83, 65>>), <<49>>, <<110, 117, 108, 108>>, Object(<<<<<<116, 121, 112, 101>>, RSA_TYPE>>>>), <<>>}}
    \cup UNION {{KeyFile(<<>>, t, Quoted(FilePem("RSA").private), Quoted(FilePem("RSA").public)),
                 KeyFile(<<55>>, t, Quoted(FilePem("EC").private), Quoted(FilePem("EC").public)),
                 KeyFile(Quoted(KeyName), t, <<>>, Quoted(FilePem("RSA").public)),
                 KeyFile(Quoted(KeyName), t, <<55>>, Quoted(FilePem("EC").public)),
                 KeyFile(Quoted(KeyName), t, Quoted(FilePem("RSA").private), <<>>),
                 KeyFile(Quoted(KeyName), t, Quoted(FilePem("EC").private), <<110, 117, 108, 108>>),
                 Object(<<<<<<110, 97, 109, 101>>, Quoted(KeyName)>>, <<<<116, 121, 112, 101>>, t>>>>),
                 Object(<<<<<<110, 97, 109, 101>>, Quoted(KeyName)>>, <<<<116, 121, 112, 101>>, t>>,
                          <<<<112, 101, 109>>, Quoted(FilePem("RSA").private)>>>>)} :
               t \in {RSA_TYPE, EC_TYPE}}
    \cup {<<>>, <<120, 120>>, <<123>>, <<91, 93, 120>>, <<91, 93>>, <<55>>,
          SubSeq(GoodFile("RSA"), 1, Len(GoodFile("RSA")) - 1),
          GoodFile("EC") \o <<32>> \o GoodFile("EC")}

\* The call of the file system that fails in one run of import.
ImportFaults == {"File::open", "read_to_string"}

\* The provider call that fails in one run of an operation ("none": no
\* call fails).
GenFaults(variant) ==
  IF variant = "RSA" THEN {"Rsa::generate", "private_key_to_pem", "public_key_to_pem"}
  ELSE {"EcGroup::from_curve_name", "EcKey::generate", "PKey::from_ec_key",
        "private_key_to_pem", "public_key_to_pem"}

SignFaults == {"PKey::from", "Signer::new", "Signer::update", "Signer::sign_to_vec"}

VerifyFaults == {"PKey::from", "Verifier::new", "Verifier::update", "Verifier::verify"}

\* The variant's method, chosen by the handle's type.
Key_new(variant, name, id, fault) ==
  IF variant = "RSA" THEN RSA_new(name, id, fault) ELSE EC_new(name, id, fault)

Key_create_from_pem(variant, name, p, src) ==
  IF variant = "RSA" THEN RSA_create_from_pem(name, p, src)
  ELSE EC_create_from_pem(name, p, src)

Key_import(variant, contents, fault) ==
  IF variant = "RSA" THEN import_rsa(contents, fault) ELSE import_ec(contents, fault)

Key_get_keypair(self, fault) ==
  IF self.variant = "RSA" THEN RSA_get_keypair(self, fault)
  ELSE EC_get_keypair(self, fault)

Key_sign(self, data, fault, nonce) ==
  IF self.variant = "RSA" THEN RSA_sign(self, data, fault, nonce)
  ELSE EC_sign(self, data, fault, nonce)

Key_verify(self, data, signature, fault) ==
  IF self.variant = "RSA" THEN RSA_verify(self, data, signature, fault)
  ELSE EC_verify(self, data, signature, fault)

Key_get_pem(self) ==
  IF self.variant = "RSA" THEN RSA_get_pem(self) ELSE EC_get_pem(self)

\* The record of the latest call on a key handle.
Call(op, handle, data, signature, fault, res) ==
  [op |-> op, handle |-> handle, data |-> data, signature |-> signature,
   fault |-> fault, res |-> res]

NoCall == Call("none", NoKey, <<>>, <<>>, "none", Ok(TRUE))

KeyInit ==
  /\ keys = <<NoKey, NoKey>>
  /\ pem = None
  /\ sig = None
  /\ last = NoCall

\* k = RSA::new(name) or EllipticCurve::new(name)
KeyNew(variant, id, fault) ==
  LET r == Key_new(variant, KeyName, id, fault)
  IN /\ keys' = IF r.ok THEN <<r.val, NoKey>> ELSE <<NoKey, NoKey>>
     /\ pem' = None
     /\ sig' = None
     /\ last' = Call("new", IF r.ok THEN r.val ELSE NoKey, <<>>, <<>>, fault, r)
     /\ UNCHANGED <<connVars, thrVars>>

\* k = create_from_pem(name, p) on a given PEM pair
KeyFromPem(variant, p) ==
  LET h == Key_create_from_pem(variant, KeyName, p, None)
  IN /\ keys' = <<h, NoKey>>
     /\ pem' = None
     /\ sig' = None
     /\ last' = Call("create_from_pem", h, <<>>, <<>>, "none", Ok(h))
     /\ UNCHANGED <<connVars, thrVars>>

\* k = import_rsa(path) or import_ec(path) on a given file
KeyImport(variant, contents, fault) ==
  LET r == Key_import(variant, contents, fault)
  IN /\ keys' = IF r.ok THEN <<r.val, NoKey>> ELSE <<NoKey, NoKey>>
     /\ pem' = None
     /\ sig' = None
     /\ last' = Call(IF variant = "RSA" THEN "import_rsa" ELSE "import_ec",
                     IF r.ok THEN r.val ELSE NoKey, contents, <<>>, fault, r)
     /\ UNCHANGED <<connVars, thrVars>>

\* handle.get_pem(); the PEM pair k returned is kept for KeyFromExport
KeyGetPem(slot) ==
  /\ keys[slot] # NoKey
  /\ LET r == Key_get_pem(keys[slot])
     IN /\ pem' = IF slot = 1 /\ r.ok THEN Some([val |-> r.val, of |-> keys[1]])
                  ELSE pem
        /\ last' = Call("get_pem", keys[slot], <<>>, <<>>, "none", r)
  /\ UNCHANGED <<keys, sig>>
  /\ UNCHANGED <<connVars, thrVars>>

\* k2 = create_from_pem(name, k.get_pem()), of the variant of k
KeyFromExport ==
  /\ pem.some
  /\ LET h == Key_create_from_pem(pem.val.of.variant, KeyName, pem.val.val,
                                     Some(pem.val.of))
     IN /\ keys' = [keys EXCEPT ![2] = h]
        /\ last' = Call("create_from_pem", h, <<>>, <<>>, "none", Ok(h))
  /\ UNCHANGED <<pem, sig>>
  /\ UNCHANGED <<connVars, thrVars>>

\* k2 = create_from_pem(name, Pkcs8pem::new("", k.get_pem().public)): the
\* public half of k alone, of the variant of k
KeyFromPublic ==
  /\ pem.some
  /\ LET h == Key_create_from_pem(pem.val.of.variant, KeyName,
                                     Pkcs8pem_new(<<>>, pem.val.val.public), None)
     IN /\ keys' = [keys EXCEPT ![2] = h]
        /\ last' = Call("create_from_pem", h, <<>>, <<>>, "none", Ok(h))
  /\ UNCHANGED <<pem, sig>>
  /\ UNCHANGED <<connVars, thrVars>>

\* handle.sign(data); a signature that was returned is kept for KeyVerify
KeySign(slot, data, fault, nonce) ==
  /\ keys[slot] # NoKey
  /\ LET r == Key_sign(keys[slot], data, fault, nonce)
     IN /\ sig' = IF r.ok THEN Some([text |-> r.val, signer |-> keys[slot], doc |-> data])
                  ELSE sig
        /\ last' = Call("sign", keys[slot], data, <<>>, fault, r)
  /\ UNCHANGED <<keys, pem>>
  /\ UNCHANGED <<connVars, thrVars>>

\* handle.verify(data, signature)
KeyVerify(slot, data, signature, fault) ==
  /\ keys[slot] # NoKey
  /\ last' = Call("verify", keys[slot], data, signature, fault,
                  Key_verify(keys[slot], data, signature, fault))
  /\ UNCHANGED <<keys, pem, sig>>
  /\ UNCHANGED <<connVars, thrVars>>

\* The signature texts a caller passes to verify.
SigInputs == NonBase64Sigs \cup ForeignSigs \cup (IF sig.some THEN {sig.val.text} ELSE {})

\* The runs of new: every variant and key with a healthy provider, and one
\* run for each provider call that can fail.
NewInputs ==
  {<<v, id, "none">> : v \in Variants, id \in KeyIds}
    \cup UNION {{<<v, 1, f>> : f \in GenFaults(v)} : v \in Variants}

\* The runs of import, made as the first call of a run (import reads no
\* state of the library, so its result on a file is the same at any time):
\* every file that opens and reads, and for each call of the file system a
\* run in which it fails.
ImportInputs ==
  IF last.op = "none"
    THEN {<<v, c, "none">> : v \in Variants, c \in ImportFiles}
           \cup {<<v, GoodFile(v), f>> : v \in Variants, f \in ImportFaults}
    ELSE {}

SignInputs ==
  {<<d, "none", n>> : d \in Docs, n \in Nonces}
    \cup {<<<<97>>, f, 1>> : f \in SignFaults}

VerifyInputs ==
  {<<d, s, "none">> : d \in Docs, s \in SigInputs}
    \cup {<<<<97>>, <<33, 33, 33, 33>>, f>> : f \in VerifyFaults}
    \cup (IF sig.some THEN {<<sig.val.doc, sig.val.text, f>> : f \in VerifyFaults}
          ELSE {})

KeyNext ==
  \/ \E i \in NewInputs : KeyNew(i[1], i[2], i[3])
  \/ \E v \in Variants, p \in PemInputs : KeyFromPem(v, p)
  \/ \E i \in ImportInputs : KeyImport(i[1], i[2], i[3])
  \/ \E slot \in 1..2 : KeyGetPem(slot)
  \/ KeyFromExport
  \/ KeyFromPublic
  \/ \E slot \in 1..2, i \in SignInputs : KeySign(slot, i[1], i[2], i[3])
  \/ \E slot \in 1..2, i \in VerifyInputs : KeyVerify(slot, i[1], i[2], i[3])

-----------------------------------------------------------------------------
(* Callers of Connection and the node they talk to                          *)

MaxTxLen == 250

NumSeeds == 2

Seeds == 1..NumSeeds

Urls == {<<110>>}

\* A transaction text of n characters: ASCII letters, or "a" followed by
\* two-byte characters, so that byte 100 falls inside a character.
TxText(n, kind) ==
  [i \in 1..n |-> IF kind = "ascii" \/ i = 1 THEN 97 + (i % 26) ELSE 233]

TxLens == {0, 1, ChunkSize - 1, ChunkSize, ChunkSize + 1, 2 * ChunkSize, MaxTxLen}

TxTexts == {TxText(n, kind) : n \in TxLens, kind \in {"ascii", "wide"}}

\* The encryption keys a node may publish: RSA 2048, RSA 1024, and an EC key.
NodeKeys == {Key("rsa", 2048, 7), Key("rsa", 1024, 8), Key("ec", 256, 7)}

\* The pem field of a node's status: the base64 of a public key PEM, text
\* that is not base64 ("!!"), and the base64 of bytes that are not a PEM.
NodePems ==
  {encode(PemBytes(Label("PUBLIC KEY"), k)) : k \in NodeKeys}
    \cup {<<33, 33>>, encode(<<120, 120, 120>>)}

\* Answers to the reachability probe GET {url}/a/status
ProbeResponses ==
  {Response(FALSE, 0, FALSE, <<>>),
   Response(TRUE, 200, TRUE, <<123, 125>>),
   Response(TRUE, 404, TRUE, <<>>),
   Response(TRUE, 500, FALSE, <<>>)}

\* Answers to the node key request GET {url}/a/status: the failures, and
\* the status of a node that publishes the key it holds now.
StatusResponses ==
  {Response(FALSE, 0, FALSE, <<>>),
   Response(TRUE, 404, TRUE, <<>>),
   Response(TRUE, 500, TRUE, <<120>>),
   Response(TRUE, 200, FALSE, <<>>),
   Response(TRUE, 200, TRUE, <<120>>),
   Response(TRUE, 200, TRUE, <<123, 125>>),
   Response(TRUE, 200, TRUE, <<123, 34, 112, 101, 109, 34, 58, 49, 125>>)}
    \cup {Response(TRUE, 200, TRUE, JsonPemText(node))}

\* Answers to POST {url}
PostResponses ==
  {Response(FALSE, 0, FALSE, <<>>),
   Response(TRUE, 200, TRUE, <<>>),
   Response(TRUE, 200, TRUE, <<123, 125>>),
   Response(TRUE, 204, FALSE, <<>>),
   Response(TRUE, 404, TRUE, <<120>>),
   Response(TRUE, 500, FALSE, <<>>)}

NoConn == [url |-> <<>>, encrypt |-> FALSE, node_key_data |-> None, built |-> FALSE]

Built(c) == [url |-> c.url, encrypt |-> c.encrypt, node_key_data |-> c.node_key_data,
             built |-> TRUE]

\* The record of the latest call on the connection interface; seed is the
\* randomness the provider drew for the OAEP padding in that call.
ConnCall(op, url, enc, tx, seed, responses, res) ==
  [op |-> op, url |-> url, encrypt |-> enc, tx |-> tx, seed |-> seed,
   responses |-> responses, res |-> res]

\* No connection yet; the node publishes its RSA 2048 key.  failed is a
\* history variable: an earlier send_transaction on the connection held now
\* did not return Ok.
ConnInit ==
  /\ conn = NoConn
  /\ reqs = <<>>
  /\ out = ConnCall("none", <<>>, FALSE, <<>>, 0, <<>>, Ok(TRUE))
  /\ node = encode(PemBytes(Label("PUBLIC KEY"), Key("rsa", 2048, 7)))
  /\ failed = FALSE

\* conn = Connection::new(url, encrypt); the node answers the key request
\* with key_response and the probe with probe_response
ConnNew(url, enc, key_response, probe_response) ==
  LET r == Connection_new(url, enc, key_response, probe_response)
  IN /\ conn' = IF r.res.ok THEN Built(r.res.val) ELSE NoConn
     /\ reqs' = r.reqs
     /\ out' = ConnCall("new", url, enc, <<>>, 0, <<key_response, probe_response>>, r.res)
     /\ failed' = FALSE
     /\ UNCHANGED node
     /\ UNCHANGED <<keyVars, thrVars>>

\* send_transaction leaving the connection unusable after a failure
ConnSend_DropsOnError(text, seed, response) ==
  /\ conn.built
  /\ LET r == send_transaction(conn, Transaction_new(text), seed, response)
     IN /\ reqs' = r.reqs
        /\ out' = ConnCall("send_transaction", conn.url, conn.encrypt, text, seed,
                           <<response>>, r.res)
        /\ failed' = (failed \/ ~r.res.ok)
        /\ conn' = IF r.res.ok THEN conn ELSE NoConn
  /\ UNCHANGED node
  /\ UNCHANGED <<keyVars, thrVars>>

\* send_transaction taking the key the node publishes now
ConnSend_Refresh(text, seed, response) ==
  /\ conn.built
  /\ LET fresh == IF conn.encrypt
                    THEN [conn EXCEPT !.node_key_data = Some(NodeKeyData("rsa", node))]
                    ELSE conn
         r == send_transaction(fresh, Transaction_new(text), seed, response)
     IN /\ reqs' = r.reqs
        /\ out' = ConnCall("send_transaction", conn.url, conn.encrypt, text, seed,
                           <<response>>, r.res)
        /\ failed' = (failed \/ ~r.res.ok)
        /\ conn' = fresh
  /\ UNCHANGED node
  /\ UNCHANGED <<keyVars, thrVars>>

\* conn.send_transaction(Transaction::new(text))
ConnSend(text, seed, response) ==
  /\ conn.built
  /\ LET r == send_transaction(conn, Transaction_new(text), seed, response)
     IN /\ reqs' = r.reqs
        /\ out' = ConnCall("send_transaction", conn.url, conn.encrypt, text, seed,
                           <<response>>, r.res)
        /\ failed' = (failed \/ ~r.res.ok)
  /\ UNCHANGED <<conn, node>>
  /\ UNCHANGED <<keyVars, thrVars>>

\* The node replaces the key it publishes.
NodeRekey(p) ==
  /\ p # node
  /\ node' = p
  /\ UNCHANGED <<conn, reqs, out, failed>>
  /\ UNCHANGED <<keyVars, thrVars>>

NoResponse == Response(FALSE, 0, FALSE, <<>>)

\* The runs of Connection::new: without encryption no key request is made.
ConnNewInputs ==
  {<<url, FALSE, NoResponse, pr>> : url \in Urls, pr \in ProbeResponses}
    \cup {<<url, TRUE, kr, pr>> : url \in Urls, kr \in StatusResponses,
                                  pr \in ProbeResponses}

\* The runs of send_transaction: on a connection just constructed every
\* text with every seed; at any time the one-character text with every
\* seed and with every answer of the node.
ConnSendInputs ==
  (IF out.op = "new"
     THEN {<<text, seed, Response(TRUE, 200, TRUE, <<123, 125>>)>> :
             text \in TxTexts, seed \in Seeds}
     ELSE {})
    \cup {<<TxText(1, "ascii"), seed, Response(TRUE, 200, TRUE, <<123, 125>>)>> :
            seed \in Seeds}
    \cup {<<TxText(1, "ascii"), 1, r>> : r \in PostResponses}

ConnNext ==
  \/ \E i \in ConnNewInputs : ConnNew(i[1], i[2], i[3], i[4])
  \/ \E i \in ConnSendInputs : ConnSend(i[1], i[2], i[3])
  \/ \E p \in NodePems : NodeRekey(p)

-----------------------------------------------------------------------------
(* Threads that share one key handle (keys[1]) and one Connection (conn)    *)
(* through shared references.  Each thread makes one call; thr[t] holds the *)
(* call, the position of the thread in it and the values local to it; net   *)
(* holds the POSTs in flight, each on the connection of the                 *)
(* reqwest::Client that its call created.                                   *)

NumThreads == 2

Threads == 1..NumThreads

NoKeypair == Key("none", 0, 0)

NoRequest == Request("none", <<>>, {}, <<>>, "none")

\* A POST on the connection of a client, and the node's answer once given.
Message(client, req, answered, resp) ==
  [client |-> client, req |-> req, answered |-> answered, resp |-> resp]

NoMessage == Message(0, NoRequest, FALSE, NoResponse)

\* A call: sign(data), verify(data, signature) or send_transaction(tx).
Job(op, data, signature, fault, nonce) ==
  [op |-> op, data |-> data, signature |-> signature, fault |-> fault, nonce |-> nonce]

\* A thread: pc is "idle", "called", "loaded" (the key pair is built),
\* "ready" (the request is built), "posted" or "done".
Thread(pc, job, keypair, req, got, res) ==
  [pc |-> pc, job |-> job, keypair |-> keypair, req |-> req, got |-> got, res |-> res]

IdleThread ==
  Thread("idle", Job("none", <<>>, <<>>, "none", 0), NoKeypair, NoRequest, NoMessage, Ok(TRUE))

NoThreads ==
  /\ thr = [t \in Threads |-> IdleThread]
  /\ net = {}

\* The calls the threads make: sign and verify of "a" on the shared handle,
\* with the handle's own signature of "a" or of "", or with a provider call
\* that fails; send_transaction of "b" or "cd" (nonce is the randomness of
\* the provider in the call).
ThreadJobs ==
  {Job("sign", <<97>>, <<>>, f, 1) : f \in {"none", "Signer::sign_to_vec"}}
    \cup {Job("verify", <<97>>, s, "none", 0) :
            s \in {Key_sign(keys[1], d, "none", 1).val :
                     d \in {e \in {<<>>, <<97>>} : Key_sign(keys[1], e, "none", 1).ok}}}
    \cup {Job("send_transaction", tx, <<>>, "none", 1) : tx \in {<<98>>, <<99, 100>>}}

\* The node's answers to a POST: no answer, or the body posted sent back.
ThreadResponses(req) ==
  {Response(FALSE, 0, FALSE, <<>>),
   Response(TRUE, 200, TRUE, req.body)}

\* The shared handle and Connection: an RSA handle made by create_from_pem
\* beside a Connection that Connection::new returned with encryption, or
\* an EllipticCurve handle beside one without.
ThreadInit ==
  /\ keys \in {<<Key_create_from_pem(v, KeyName, FilePem(v), None), NoKey>> : v \in Variants}
  /\ pem = None
  /\ sig = None
  /\ last = NoCall
  /\ node = encode(PemBytes(Label("PUBLIC KEY"), Key("rsa", 2048, 7)))
  /\ conn = Built(Connection_new(<<110>>, keys[1].variant = "RSA",
                                 Response(TRUE, 200, TRUE, JsonPemText(node)),
                                 Response(TRUE, 200, TRUE, <<123, 125>>)).res.val)
  /\ reqs = <<>>
  /\ out = ConnCall("none", <<>>, FALSE, <<>>, 0, <<>>, Ok(TRUE))
  /\ failed = FALSE
  /\ NoThreads

\* A thread calls sign, verify or send_transaction.
ThreadCall(t, job) ==
  /\ thr[t].pc = "idle"
  /\ thr' = [thr EXCEPT ![t] = Thread("called", job, NoKeypair, NoRequest, NoMessage, Ok(TRUE))]
  /\ UNCHANGED <<keyVars, connVars, net>>

\* sign and verify: let pkey = self.get_keypair()?
ThreadLoadKey(t) ==
  /\ thr[t].pc = "called"
  /\ thr[t].job.op \in {"sign", "verify"}
  /\ LET keypair == Key_get_keypair(keys[1], thr[t].job.fault)
     IN thr' = [thr EXCEPT ![t] =
                 IF keypair.ok THEN [@ EXCEPT !.pc = "loaded", !.keypair = keypair.val]
                 ELSE [@ EXCEPT !.pc = "done", !.res = keypair]]
  /\ UNCHANGED <<keyVars, connVars, net>>

\* sign and verify: Signing::sign(pkey, data), Signing::verify(pkey, data,
\* signature)
ThreadSigning(t) ==
  /\ thr[t].pc = "loaded"
  /\ LET job == thr[t].job
         res == IF job.op = "sign"
                  THEN Signing_sign(thr[t].keypair, job.data, job.fault, job.nonce)
                  ELSE Signing_verify(thr[t].keypair, job.data, job.signature, job.fault)
     IN thr' = [thr EXCEPT ![t] = [@ EXCEPT !.pc = "done", !.res = res]]
  /\ UNCHANGED <<keyVars, connVars, net>>

\* send_transaction up to the request: a client of its own, the url, the
\* body and the header read from the shared Connection.
ThreadPrepare(t) ==
  /\ thr[t].pc = "called"
  /\ thr[t].job.op = "send_transaction"
  /\ LET ran == send_transaction(conn, Transaction_new(thr[t].job.data),
                                 thr[t].job.nonce, NoResponse)
     IN thr' = [thr EXCEPT ![t] =
                 IF ran.reqs = <<>> THEN [@ EXCEPT !.pc = "done", !.res = ran.res]
                 ELSE [@ EXCEPT !.pc = "ready", !.req = ran.reqs[1]]]
  /\ UNCHANGED <<keyVars, connVars, net>>

\* send_transaction: client.body(post_data).send() puts the request on the
\* connection of the call's client.
ThreadPost(t) ==
  /\ thr[t].pc = "ready"
  /\ thr' = [thr EXCEPT ![t] = [@ EXCEPT !.pc = "posted"]]
  /\ net' = net \cup {Message(t, thr[t].req, FALSE, NoResponse)}
  /\ UNCHANGED <<keyVars, connVars>>

\* The node answers a POST in flight on the connection it came in on.
NodeAnswer(m, resp) ==
  /\ m \in net
  /\ ~m.answered
  /\ net' = (net \ {m}) \cup {Message(m.client, m.req, TRUE, resp)}
  /\ UNCHANGED <<keyVars, connVars, thr>>

\* send_transaction from the answer on
ThreadResult(t, m) ==
  /\ thr' = [thr EXCEPT ![t] =
              [@ EXCEPT !.pc = "done", !.got = m,
                        !.res = send_transaction(conn, Transaction_new(thr[t].job.data),
                                                 thr[t].job.nonce, m.resp).res]]
  /\ net' = net \ {m}
  /\ UNCHANGED <<keyVars, connVars>>

\* send_transaction reading an answer from any connection
ThreadReceive_AnyResponse(t) ==
  /\ thr[t].pc = "posted"
  /\ \E m \in net : m.answered /\ ThreadResult(t, m)

\* send_transaction: send() returns the answer that came in on the
\* connection of the call's client.
ThreadReceive(t) ==
  /\ thr[t].pc = "posted"
  /\ \E m \in net : m.answered /\ m.client = t /\ ThreadResult(t, m)

ThreadNext ==
  \/ \E t \in Threads, job \in ThreadJobs : ThreadCall(t, job)
  \/ \E t \in Threads : ThreadLoadKey(t)
  \/ \E t \in Threads : ThreadSigning(t)
  \/ \E t \in Threads : ThreadPrepare(t)
  \/ \E t \in Threads : ThreadPost(t)
  \/ \E m \in net : \E resp \in ThreadResponses(m.req) : NodeAnswer(m, resp)
  \/ \E t \in Threads : ThreadReceive(t)

-----------------------------------------------------------------------------
(* send_transaction as a function of the Connection it is called on        *)

\* The values of struct Connection: every combination its field types
\* admit, a set encrypt flag with no key data included (a value that
\* Connection::new never returns).
ConnectionValues ==
  {ConnectionStruct(url, enc, node_key_data) :
     url \in Urls, enc \in BOOLEAN,
     node_key_data \in {None} \cup {Some(NodeKeyData("rsa", p)) : p \in NodePems}}

\* send_transaction as a function of the Connection value it is called on.
SendInit ==
  /\ KeyInit
  /\ conn \in {Built(c) : c \in ConnectionValues}
  /\ reqs = <<>>
  /\ out = ConnCall("none", <<>>, FALSE, <<>>, 0, <<>>, Ok(TRUE))
  /\ node = encode(PemBytes(Label("PUBLIC KEY"), Key("rsa", 2048, 7)))
  /\ failed = FALSE
  /\ NoThreads

SendNext == \E i \in ConnSendInputs : ConnSend(i[1], i[2], i[3])

-----------------------------------------------------------------------------
Init == KeyInit /\ ConnInit /\ NoThreads

\* Key handles alone
KeySpec == Init /\ [][KeyNext]_vars

\* A connection alone
ConnSpec == Init /\ [][ConnNext]_vars

\* send_transaction on every value of struct Connection
SendSpec == SendInit /\ [][SendNext]_vars

\* A caller of the library: key handles and connections share no state
\* (a Connection takes no key, a key handle no Connection), so a run uses
\* the key interface or the connection interface.
LibNext ==
  \/ ConnInit /\ KeyNext
  \/ KeyInit /\ ConnNext

\* The whole library
LibSpec == Init /\ [][LibNext]_vars

\* Threads on one key handle and one Connection
ThreadSpec == ThreadInit /\ [][ThreadNext]_vars

-----------------------------------------------------------------------------
(* Claims about key handles, checked under KeySpec                          *)

\* The latest call is verify(d, s) in a run where no provider call fails,
\* and s is the signature the kept sign call returned.
VerifiesKeptSig ==
  /\ last.op = "verify"
  /\ last.fault = "none"
  /\ sig.some
  /\ last.signature = sig.val.text

SameKey(h1, h2) == h1.variant = h2.variant /\ h1.pkcs8pem = h2.pkcs8pem

\* C1: for a key of either variant produced by new and every document d,
\* the empty one included, verify(d, sign(d)) returns Ok(true).
C1_SignThenVerify ==
  (/\ VerifiesKeptSig
   /\ last.handle = sig.val.signer
   /\ last.handle.origin = "new"
   /\ last.data = sig.val.doc)
    => last.res = Ok(TRUE)

C1_Witness ==
  /\ VerifiesKeptSig
  /\ last.handle = sig.val.signer
  /\ last.handle.origin = "new"
  /\ last.handle.variant = "EC"
  /\ last.data = <<>>
  /\ sig.val.doc = <<>>
  /\ last.res = Ok(TRUE)

\* C2: for either variant and documents d1 # d2, verify(d1, sign(d2)) with
\* the same key returns Ok(false): a boolean, neither an Err nor a panic.
C2_TamperDetected ==
  (/\ VerifiesKeptSig
   /\ SameKey(last.handle, sig.val.signer)
   /\ last.data # sig.val.doc)
    => last.res = Ok(FALSE)

C2_Witness ==
  /\ VerifiesKeptSig
  /\ SameKey(last.handle, sig.val.signer)
  /\ last.handle.variant = "RSA"
  /\ last.data = <<>>
  /\ sig.val.doc = <<97>>
  /\ last.res = Ok(FALSE)

\* C3: on a handle whose private PEM loads, verify(d, s) with s not base64
\* returns Err(SigningError(2003)) for every document d.
C3_NonBase64Signature ==
  (/\ last.op = "verify"
   /\ Key_get_keypair(last.handle, last.fault).ok
   /\ last.signature \in NonBase64Sigs)
    => last.res = Err("SigningError", 2003)

C3_Witness ==
  /\ last.op = "verify"
  /\ Key_get_keypair(last.handle, last.fault).ok
  /\ last.handle.origin = "pem"
  /\ last.signature = <<97, 124, 98, 61>>
  /\ last.data = <<233>>
  /\ last.res = Err("SigningError", 2003)

\* h2 was made by create_from_pem from the PEM pair that get_pem returned
\* for h1, and h1 was produced by new.
RoundTrip(h2, h1) ==
  /\ h2.src.some
  /\ h2.src.val = h1
  /\ h1.origin = "new"

\* C4: for k produced by new and k2 = create_from_pem(name, k.get_pem()):
\* k2 holds the PEM bytes of k, each verifies the other's signatures, and
\* k2.get_pem() equals k.get_pem().
C4_PemRoundTrip ==
  /\ \A slot \in 1..2 :
       (keys[slot] # NoKey /\ keys[slot].src.some
          /\ keys[slot].src.val.origin = "new")
         => keys[slot].pkcs8pem = keys[slot].src.val.pkcs8pem
  /\ (/\ VerifiesKeptSig
      /\ last.data = sig.val.doc
      /\ RoundTrip(last.handle, sig.val.signer) \/ RoundTrip(sig.val.signer, last.handle))
       => last.res = Ok(TRUE)
  /\ (/\ last.op = "get_pem"
      /\ last.handle.src.some
      /\ last.handle.src.val.origin = "new")
       => last.res.ok /\ last.res = Key_get_pem(last.handle.src.val)

C4_Witness ==
  /\ VerifiesKeptSig
  /\ last.data = sig.val.doc
  /\ RoundTrip(sig.val.signer, last.handle)
  /\ last.handle.variant = "EC"
  /\ last.res = Ok(TRUE)

\* The handle holds a public PEM that loads and an empty private PEM.
PublicOnly(h) ==
  /\ h.origin = "pem"
  /\ h.pkcs8pem.private = <<>>
  /\ PKey_public_key_from_pem(h.pkcs8pem.public).ok

\* The latest call is verify(d, s) on a handle that holds the public half
\* alone of the key that made s, a signature of d.
VerifiesWithPublicHalf ==
  /\ VerifiesKeptSig
  /\ last.data = sig.val.doc
  /\ PublicOnly(last.handle)
  /\ last.handle.variant = sig.val.signer.variant
  /\ last.handle.pkcs8pem.public = sig.val.signer.pkcs8pem.public

\* C18 as claimed: verify needs only the public portion of the key: a
\* handle built by create_from_pem with a valid public PEM and an empty
\* private PEM returns Ok(true) from verify(d, s) when s is a valid
\* signature of d made with the matching private key.
C18_PublicPortionSuffices ==
  VerifiesWithPublicHalf => last.res = Ok(TRUE)

\* C18 as amended: verify loads the private PEM of the handle: a handle
\* built by create_from_pem with a valid public PEM and an empty private
\* PEM returns Err(SigningError(2007)) from verify(d, s), also when s is a
\* valid signature of d made with the matching private key.
C18_VerifyLoadsPrivate ==
  VerifiesWithPublicHalf => last.res = Err("SigningError", 2007)

C18_Witness ==
  /\ VerifiesWithPublicHalf
  /\ last.handle.variant = "RSA"
  /\ sig.val.signer.origin = "new"
  /\ last.res = Err("SigningError", 2007)

\* The provider loads the handle's private PEM as a key of its variant.
PrivateLoads(h) ==
  IF h.variant = "RSA" THEN Rsa_private_key_from_pem(h.pkcs8pem.private).ok
  ELSE EcKey_private_key_from_pem(h.pkcs8pem.private).ok

\* C19: lazy validation: create_from_pem returns a handle for every PEM
\* pair, empty or malformed text included, and reports no error; a private
\* PEM that does not load is reported by every sign and every verify as
\* Err(SigningError(2007)), and get_pem on such a handle still succeeds
\* and returns the text the handle holds.
C19_LazyValidation ==
  /\ last.op = "create_from_pem" =>
       /\ last.res = Ok(last.handle)
       /\ last.handle \in {keys[1], keys[2]}
       /\ last.handle.origin = "pem"
  /\ (last.op \in {"sign", "verify"} /\ last.handle.origin = "pem"
        /\ ~PrivateLoads(last.handle))
       => last.res = Err("SigningError", 2007)
  /\ (last.op = "get_pem" /\ last.handle.origin = "pem") =>
       /\ last.res.ok
       /\ as_bytes(last.res.val.private) = last.handle.pkcs8pem.private
       /\ as_bytes(last.res.val.public) = last.handle.pkcs8pem.public

C19_Witness ==
  /\ last.op = "verify"
  /\ last.handle.origin = "pem"
  /\ last.handle.variant = "EC"
  /\ last.handle.pkcs8pem.private = <<120, 120>>
  /\ last.res = Err("SigningError", 2007)

\* C20: the seven failure modes of the signing engine have seven codes:
\* signer construction 2000, document feed on sign 2001, signature
\* generation 2002, signature base64 decode 2003, verifier construction
\* 2004, document feed on verify 2005, provider-level verification failure
\* 2006; Signing::sign returns only 2000 to 2002 and Signing::verify only
\* 2003 to 2006.
C20_SigningErrorCodes ==
  /\ (last.op = "sign" /\ Key_get_keypair(last.handle, last.fault).ok) =>
       /\ last.res = Err("SigningError", 2000) <=> last.fault = "Signer::new"
       /\ last.res = Err("SigningError", 2001) <=> last.fault = "Signer::update"
       /\ last.res = Err("SigningError", 2002) <=> last.fault = "Signer::sign_to_vec"
       /\ last.res.ok \/ (last.res.kind = "SigningError" /\ last.res.code \in 2000..2002)
  /\ (last.op = "verify" /\ Key_get_keypair(last.handle, last.fault).ok) =>
       LET decodes == decode(last.signature).ok
           provider_error ==
             \/ last.fault = "Verifier::verify"
             \/ ProviderVerify(Key_get_keypair(last.handle, last.fault).val,
                               as_bytes(last.data), decode(last.signature).val) = -1
       IN /\ last.res = Err("SigningError", 2003) <=> ~decodes
          /\ last.res = Err("SigningError", 2004)
               <=> (decodes /\ last.fault = "Verifier::new")
          /\ last.res = Err("SigningError", 2005)
               <=> (decodes /\ last.fault = "Verifier::update")
          /\ last.res = Err("SigningError", 2006)
               <=> (decodes /\ last.fault \notin {"Verifier::new", "Verifier::update"}
                     /\ provider_error)
          /\ last.res.ok \/ (last.res.kind = "SigningError" /\ last.res.code \in 2003..2006)
  /\ Cardinality({2000, 2001, 2002, 2003, 2004, 2005, 2006}) = 7

C20_Witness ==
  /\ last.op = "verify"
  /\ last.fault = "Verifier::update"
  /\ sig.some
  /\ last.signature = sig.val.text
  /\ last.res = Err("SigningError", 2005)

\* The latest call is an import of a file that opened and was read.
Imported == last.op \in {"import_rsa", "import_ec"} /\ last.fault = "none"

ImportedVariant == IF last.op = "import_rsa" THEN "RSA" ELSE "EC"

\* The type text import expects in the file it was given.
ExpectedType == IF last.op = "import_rsa" THEN RSA_TYPE ELSE EC_TYPE

\* The document of the file given to the latest import.
FileDoc == from_str(last.data)

\* The text of the document's type field.
FileType == to_string(Index(FileDoc.val, <<116, 121, 112, 101>>))

\* The document holds name, pem.public and pem.private as strings.
FieldsAreStrings ==
  /\ FileDoc.ok
  /\ Index(FileDoc.val, <<110, 97, 109, 101>>).t = "str"
  /\ Index(Index(FileDoc.val, <<112, 101, 109>>), <<112, 117, 98, 108, 105, 99>>).t = "str"
  /\ Index(Index(FileDoc.val, <<112, 101, 109>>), <<112, 114, 105, 118, 97, 116, 101>>).t = "str"

\* C21 as stated: import_rsa and import_ec reject every file whose type
\* field does not match the requested variant with ImportError(4002).
C21_MismatchAlways4002 ==
  (Imported /\ FileDoc.ok /\ Index(FileDoc.val, <<116, 121, 112, 101>>).t = "str"
     /\ FileType # ExpectedType)
    => last.res = Err("ImportError", 4002)

\* C21: import_rsa and import_ec reject a file whose name, pem.public and
\* pem.private are strings and whose type field is missing or is not the
\* requested variant ("rsa" for import_rsa, "ec" for import_ec) with
\* ImportError(4002); a mismatching type in a file that lacks one of those
\* strings is reported as ImportError(4001) instead. A well-formed file
\* whose type matches is accepted, and the handle returned is the one
\* create_from_pem of that variant builds from the file's name and pem.
C21_TypeMismatch ==
  /\ (Imported /\ FieldsAreStrings /\ FileType # ExpectedType)
       => (last.res = Err("ImportError", 4002) /\ keys[1] = NoKey)
  /\ (Imported /\ FileDoc.ok /\ ~FieldsAreStrings /\ FileType # ExpectedType)
       => last.res = Err("ImportError", 4001)
  /\ (Imported /\ FieldsAreStrings /\ FileType = ExpectedType) =>
       /\ last.res.ok
       /\ last.res.val = keys[1]
       /\ keys[1].variant = ImportedVariant
       /\ keys[1].name = Index(FileDoc.val, <<110, 97, 109, 101>>).s
       /\ Text(keys[1].pkcs8pem.private)
            = Index(Index(FileDoc.val, <<112, 101, 109>>), <<112, 114, 105, 118, 97, 116, 101>>).s
       /\ Text(keys[1].pkcs8pem.public)
            = Index(Index(FileDoc.val, <<112, 101, 109>>), <<112, 117, 98, 108, 105, 99>>).s
  /\ (Imported /\ last.data \in {GoodFile(ImportedVariant), SpacedFile(ImportedVariant)}) =>
       last.res = Ok(Key_create_from_pem(ImportedVariant, KeyName,
                                         FilePem(ImportedVariant), None))

\* import_rsa was given the well-formed file of an EC key.
C21_Witness ==
  /\ last.op = "import_rsa"
  /\ last.fault = "none"
  /\ last.data = GoodFile("EC")
  /\ last.res = Err("ImportError", 4002)

\* C22: import returns a value for every file and never panics, and every
\* error it returns is an ImportError: a file that cannot be opened gives
\* 4000; content that cannot be read, content that is not JSON, and a JSON
\* document in which name, pem.public or pem.private is missing or is not
\* a string give 4001.
C22_ImportErrors ==
  last.op \in {"import_rsa", "import_ec"} =>
    /\ last.res # Panic
    /\ ~last.res.ok => (last.res.kind = "ImportError" /\ last.res.code \in {4000, 4001, 4002})
    /\ last.fault = "File::open" <=> last.res = Err("ImportError", 4000)
    /\ last.fault = "read_to_string" => last.res = Err("ImportError", 4001)
    /\ (last.fault = "none" /\ ~FieldsAreStrings) => last.res = Err("ImportError", 4001)
    /\ (last.fault = "none"
          /\ last.data \in {<<>>, <<120, 120>>, <<123>>, <<91, 93>>, <<55>>,
                            GoodFile("EC") \o <<32>> \o GoodFile("EC")})
         => last.res = Err("ImportError", 4001)
    /\ last.res = Err("ImportError", 4001)
         => (last.fault = "read_to_string" \/ ~FieldsAreStrings)

\* A file that is JSON but holds a number as its name.
C22_Witness ==
  /\ last.op = "import_ec"
  /\ last.fault = "none"
  /\ FileDoc.ok
  /\ Index(FileDoc.val, <<110, 97, 109, 101>>).t = "num"
  /\ last.res = Err("ImportError", 4001)

\* C23: RSA::new generates a 2048-bit key and stores its private key as a
\* PKCS8 PEM (PRIVATE KEY) and its public key as an SPKI PEM (PUBLIC KEY),
\* the two encodings that EllipticCurve::new stores.
C23_GeneratedEncodings ==
  \A slot \in 1..2 :
    (keys[slot] # NoKey /\ keys[slot].origin = "new") =>
      LET private == ParsePem(keys[slot].pkcs8pem.private)
          public == ParsePem(keys[slot].pkcs8pem.public)
      IN /\ private.ok
         /\ private.val.label = Label("PRIVATE KEY")
         /\ public.ok
         /\ public.val.label = Label("PUBLIC KEY")
         /\ public.val.key = private.val.key
         /\ keys[slot].variant = "RSA"
              => (private.val.key.alg = "rsa" /\ private.val.key.bits = 2048)

\* The handles of the other variant that a caller can hold: made by
\* create_from_pem from each PEM pair, and generated.
Counterparts(h) ==
  LET other == IF h.variant = "RSA" THEN "EC" ELSE "RSA"
  IN {Key_create_from_pem(other, KeyName, p, None) : p \in PemInputs}
       \cup {Key_new(other, KeyName, id, "none").val : id \in KeyIds}

\* The signature texts given to verify on a counterpart: the text given
\* to the latest call, and the counterpart's own signatures of the data.
CounterpartSigs(c) ==
  {last.signature}
    \cup {Key_sign(c, last.data, "none", n).val :
            n \in {m \in Nonces : Key_sign(c, last.data, "none", m).ok}}

\* The provider's answer to the verification of s over data with the key
\* of h (0 when the call does not reach the provider).
VerifyAnswer(h, data, s) ==
  IF PrivateLoads(h) /\ decode(s).ok
    THEN ProviderVerify(Key_get_keypair(h, "none").val, as_bytes(data), decode(s).val)
    ELSE 0

\* Ok, or the kind and code of an error.
Outcome(res) == IF res.ok THEN <<"Ok">> ELSE <<res.kind, res.code>>

\* C24: the RSA and EllipticCurve variants are interchangeable: whenever
\* the provider answers a handle of the other variant as it answers the
\* handle of the latest call (the private key loads or not, the same
\* provider call fails, the signature matches or not), the same
\* create_from_pem, sign, verify or get_pem call on that handle returns the
\* same Ok or Err, with the same boolean, error kind and code.
C24_Interchangeable ==
  last.op \in {"create_from_pem", "sign", "verify", "get_pem"} =>
    \A c \in Counterparts(last.handle) :
      PrivateLoads(c) = PrivateLoads(last.handle) =>
        /\ last.op = "create_from_pem" => last.res.ok
        /\ last.op = "sign" =>
             \A n \in Nonces :
               Outcome(Key_sign(c, last.data, last.fault, n)) = Outcome(last.res)
        /\ last.op = "verify" =>
             \A s \in CounterpartSigs(c) :
               (/\ decode(s).ok = decode(last.signature).ok
                /\ VerifyAnswer(c, last.data, s)
                     = VerifyAnswer(last.handle, last.data, last.signature))
                 => Key_verify(c, last.data, s, last.fault) = last.res
        /\ last.op = "get_pem" => Outcome(Key_get_pem(c)) = Outcome(last.res)

\* An EllipticCurve handle rejected a well-formed signature of another
\* document, and an RSA handle given the same call answers alike.
C24_Witness ==
  /\ last.op = "verify"
  /\ last.handle.variant = "EC"
  /\ last.res = Ok(FALSE)
  /\ \E c \in Counterparts(last.handle) :
       /\ PrivateLoads(c)
       /\ VerifyAnswer(c, last.data, last.signature) = 0
       /\ Key_verify(c, last.data, last.signature, last.fault) = Ok(FALSE)

\* C30: verify loads the private key before it decodes the signature: on a
\* handle whose private PEM does not load verify returns
\* Err(SigningError(2007)) for every signature text, one that is not base64
\* included, and SigningError(2003) is returned only when the key loads.
C30_KeyBeforeSignature ==
  last.op = "verify" =>
    /\ ~PrivateLoads(last.handle) => last.res = Err("SigningError", 2007)
    /\ last.res = Err("SigningError", 2003)
         => (PrivateLoads(last.handle) /\ ~decode(last.signature).ok)

C30_Witness ==
  /\ last.op = "verify"
  /\ last.handle.variant = "RSA"
  /\ last.handle.pkcs8pem.private = <<120, 120>>
  /\ last.signature = <<33, 33, 33, 33>>
  /\ last.res = Err("SigningError", 2007)

-----------------------------------------------------------------------------
(* Claims about Connection, checked under ConnSpec                          *)

\* The node's side, Rsa::private_decrypt of one buffer with the private key
\* of the pair whose public key encrypted it.
private_decrypt(rsa, buffer) ==
  IF Len(buffer) # RsaSize(rsa) \/ buffer[1] # 0 \/ buffer[3] > RsaSize(rsa) - 42
    THEN Err("ErrorStack", 0)
    ELSE Ok([i \in 1..buffer[3] |->
              (buffer[i + 3] + 512 - rsa.id - buffer[2]) % 256])

Bars(s) == {i \in 1..Len(s) : s[i] = 124}

RECURSIVE Pieces(_)
\* The node's side: the text split at every "|".
Pieces(s) ==
  IF Bars(s) = {} THEN <<s>>
  ELSE LET f == CHOOSE i \in Bars(s) : \A j \in Bars(s) : i <= j
       IN <<SubSeq(s, 1, f - 1)>> \o Pieces(SubSeq(s, f + 1, Len(s)))

RECURSIVE Concat(_)
Concat(ss) == IF ss = <<>> THEN <<>> ELSE Head(ss) \o Concat(Tail(ss))

\* The key the connection cached, as the node holds it.
CachedKey == PKey_public_key_from_pem(decode(conn.node_key_data.val.pem).val).val

\* The latest call is a send_transaction on an encrypted connection that
\* issued its POST.
EncryptedPost ==
  /\ out.op = "send_transaction"
  /\ out.encrypt
  /\ Len(reqs) = 1

\* C5: a payload of n >= 1 bytes is sent as ceil(n/100) chunks of 100 bytes,
\* the last of n - 100*(ceil(n/100)-1), each encrypted and base64-encoded on
\* its own, joined by ceil(n/100)-1 separators with none at the end; the
\* chunks decrypted in order and concatenated are the payload bytes.
C5_ChunkedEncryption ==
  EncryptedPost =>
    LET body == reqs[1].body
        payload == as_bytes(out.tx)
        n == Len(payload)
        k == (n + ChunkSize - 1) \div ChunkSize
        pieces == Pieces(body)
        plain == [i \in 1..Len(pieces) |->
                    LET buffer == decode(pieces[i])
                    IN IF buffer.ok THEN private_decrypt(CachedKey, buffer.val)
                       ELSE buffer]
    IN /\ n >= 1
       /\ Cardinality(Bars(body)) = k - 1
       /\ body[Len(body)] # 124
       /\ Len(pieces) = k
       /\ \A i \in 1..k :
            /\ plain[i].ok
            /\ Len(plain[i].val) = IF i < k THEN ChunkSize ELSE n - ChunkSize * (k - 1)
       /\ Concat([i \in 1..k |-> plain[i].val]) = payload

C5_Witness ==
  /\ EncryptedPost
  /\ Len(as_bytes(out.tx)) = 250
  /\ Cardinality(Bars(reqs[1].body)) = 2
  /\ Len(Pieces(reqs[1].body)) = 3

ConnectionErrorKinds ==
  {"HttpError", "UrlError", "ResponseError", "EncryptionError", "EncodingError"}

\* C6: send_transaction returns Ok(body) or Err(ConnectionError) for every
\* Connection and every Transaction text, the empty text on an encrypted
\* Connection included; it never panics.
C6_NeverPanics ==
  out.op = "send_transaction" => (out.res.ok \/ out.res.kind \in ConnectionErrorKinds)

\* Every GET of the latest Connection::new failed at the transport level.
Unreachable ==
  /\ out.op = "new"
  /\ ~out.responses[1].transport
  /\ ~out.responses[2].transport

\* C7 as claimed: Connection::new against an unreachable URL returns an
\* HttpError and no Connection, whatever the encrypt flag.
C7_UnreachableIsHttpError ==
  Unreachable => (~out.res.ok /\ out.res.kind = "HttpError" /\ ~conn.built)

\* C7 as amended: Connection::new against an unreachable URL returns no
\* Connection; the error is HttpError(1001) with encrypt=false and
\* EncryptionError(4001) with encrypt=true.
C7_UnreachableFails ==
  Unreachable =>
    /\ ~conn.built
    /\ out.res = IF out.encrypt THEN Err("EncryptionError", 4001)
                 ELSE Err("HttpError", 1001)

C7_Witness ==
  /\ Unreachable
  /\ ~out.encrypt
  /\ out.res = Err("HttpError", 1001)
  /\ ~conn.built

\* The node key retrieval fails on this answer: transport failure,
\* non-success status, unreadable body, body not JSON, no string pem.
KeyFetchFails(r) ==
  \/ ~r.transport
  \/ ~is_success(r.status)
  \/ ~r.readable
  \/ ~JsonPem(r.body).json
  \/ ~JsonPem(r.body).pem.some

\* C8 as claimed: with encrypt=true every failure of the node key retrieval
\* makes Connection::new fail with an EncryptionError.
C8_KeyFetchIsEncryptionError ==
  (out.op = "new" /\ out.encrypt /\ KeyFetchFails(out.responses[1]))
    => (~out.res.ok /\ out.res.kind = "EncryptionError")

\* C8 as amended: with encrypt=true every failure of the node key retrieval
\* makes Connection::new fail: a non-success status with
\* ResponseError(3001), every other failure with an EncryptionError
\* (transport 4001, unreadable body 4002, not JSON or no string pem 4003).
C8_KeyFetchFailure ==
  (out.op = "new" /\ out.encrypt /\ KeyFetchFails(out.responses[1]))
    => LET r == out.responses[1]
       IN /\ ~conn.built
          /\ out.res =
               IF ~r.transport THEN Err("EncryptionError", 4001)
               ELSE IF ~is_success(r.status) THEN Err("ResponseError", 3001)
               ELSE IF ~r.readable THEN Err("EncryptionError", 4002)
               ELSE Err("EncryptionError", 4003)

C8_Witness ==
  /\ out.op = "new"
  /\ out.encrypt
  /\ out.responses[1].transport
  /\ out.responses[1].status = 404
  /\ out.res = Err("ResponseError", 3001)

\* C9: Connection::new with encrypt=false issues the probe alone; with
\* encrypt=true it issues the node key GET first and the probe only after
\* the key fetch succeeded; both are GET {url}/a/status.  It returns a
\* Connection exactly when the probe was issued and completed without
\* transport error, and HttpError(1001) when the probe failed.
C9_ConstructionOrder ==
  out.op = "new" =>
    LET n == Len(reqs)
        probed == n >= 1 /\ reqs[n].by = "test_connection"
    IN /\ \A i \in 1..n : reqs[i].method = "GET" /\ reqs[i].url = out.url \o StatusPath
       /\ ~out.encrypt => (n = 1 /\ probed)
       /\ out.encrypt =>
            /\ n \in {1, 2}
            /\ reqs[1].by = "get_node_key_data"
            /\ n = 2 <=> ~KeyFetchFails(out.responses[1])
            /\ n = 2 => probed
       /\ out.res.ok <=> (probed /\ out.responses[2].transport)
       /\ out.res.ok <=> conn.built
       /\ (probed /\ ~out.responses[2].transport) => out.res = Err("HttpError", 1001)

C9_Witness ==
  /\ out.op = "new"
  /\ out.encrypt
  /\ Len(reqs) = 2
  /\ reqs[1].by = "get_node_key_data"
  /\ reqs[2].by = "test_connection"
  /\ out.res.ok

\* C10: send_transaction with encrypt=false issues one POST to the
\* connection URL whose body is the Transaction's data text, with no
\* X-Activeledger-Encrypt header; get_data of Transaction::new(s) is s.
C10_PlainPost ==
  (out.op = "send_transaction" /\ ~out.encrypt) =>
    /\ Len(reqs) = 1
    /\ reqs[1].method = "POST"
    /\ reqs[1].url = conn.url
    /\ reqs[1].body = out.tx
    /\ \A h \in reqs[1].headers : h[1] # "X-Activeledger-Encrypt"
    /\ Transaction_get_data(Transaction_new(out.tx)) = out.tx

C10_Witness ==
  /\ out.op = "send_transaction"
  /\ ~out.encrypt
  /\ Len(out.tx) = 250
  /\ Len(reqs) = 1
  /\ reqs[1].body = out.tx
  /\ reqs[1].headers = {}

\* C11: a POST issued by send_transaction carries the header
\* X-Activeledger-Encrypt: 1 exactly when the Connection's encrypt flag is
\* true, and then its body is what Connection::encrypt returns for the
\* Transaction text.
C11_HeaderIffEncrypt ==
  (out.op = "send_transaction" /\ Len(reqs) = 1) =>
    /\ reqs[1].method = "POST"
    /\ (<<"X-Activeledger-Encrypt", "1">> \in reqs[1].headers) <=> conn.encrypt
    /\ reqs[1].headers \subseteq {<<"X-Activeledger-Encrypt", "1">>}
    /\ conn.encrypt =>
         LET encrypted == encrypt(conn.node_key_data.val, out.tx, out.seed)
         IN encrypted.ok /\ reqs[1].body = encrypted.val

C11_Witness ==
  /\ out.op = "send_transaction"
  /\ Len(reqs) = 1
  /\ conn.encrypt
  /\ <<"X-Activeledger-Encrypt", "1">> \in reqs[1].headers
  /\ out.tx = TxText(ChunkSize + 1, "wide")
  /\ reqs[1].body # out.tx

SendStep ==
  /\ out'.op = "send_transaction"
  /\ <<out, reqs, conn, failed>>' # <<out, reqs, conn, failed>>

NewStep ==
  /\ out'.op = "new"
  /\ <<out, reqs, conn, failed>>' # <<out, reqs, conn, failed>>

IssuedBy(f) == {i \in 1..Len(reqs) : reqs[i].by = f}

\* C14: no retry: one send_transaction issues at most one POST and no GET;
\* one Connection::new issues at most one node key GET and at most one
\* probe GET; a request that fails makes the call return an error with no
\* further request.
C14_NoRetry ==
  /\ out.op = "send_transaction" =>
       /\ Len(reqs) <= 1
       /\ \A i \in 1..Len(reqs) : reqs[i].method = "POST"
       /\ (Len(reqs) = 1 /\ ~out.responses[1].transport) => ~out.res.ok
  /\ out.op = "new" =>
       /\ Cardinality(IssuedBy("get_node_key_data")) <= 1
       /\ Cardinality(IssuedBy("test_connection")) <= 1
       /\ Len(reqs) = Cardinality(IssuedBy("get_node_key_data"))
                        + Cardinality(IssuedBy("test_connection"))
       /\ (out.encrypt /\ KeyFetchFails(out.responses[1]))
            => (~out.res.ok /\ Len(reqs) = 1)
       /\ (IssuedBy("test_connection") # {} /\ ~out.responses[2].transport)
            => (~out.res.ok /\ reqs[Len(reqs)].by = "test_connection")

C14_Witness ==
  /\ out.op = "new"
  /\ out.encrypt
  /\ ~out.responses[1].transport
  /\ Len(reqs) = 1
  /\ out.res = Err("EncryptionError", 4001)

\* C15: the node's key is fetched once, by Connection::new of an encrypted
\* Connection, which caches the key the node publishes then; no later step
\* changes url, encrypt or the cached key, send_transaction issues no GET,
\* and what it posts decrypts under the cached key, also when the node has
\* replaced its key since.
C15_KeyFetchedOnce ==
  /\ [][/\ NewStep =>
             /\ Cardinality({i \in 1..Len(reqs') : reqs'[i].by = "get_node_key_data"})
                  = IF out'.encrypt THEN 1 ELSE 0
             /\ (conn'.built /\ conn'.encrypt)
                  => conn'.node_key_data = Some(NodeKeyData("rsa", node))
        /\ ~NewStep =>
             /\ conn'.url = conn.url
             /\ conn'.encrypt = conn.encrypt
             /\ conn'.node_key_data = conn.node_key_data
        /\ SendStep => \A i \in 1..Len(reqs') : reqs'[i].method = "POST"]_vars
  /\ [](EncryptedPost =>
          LET piece == decode(Pieces(reqs[1].body)[1])
          IN /\ piece.ok
             /\ private_decrypt(CachedKey, piece.val)
                  = Ok(chunks(as_bytes(out.tx), ChunkSize)[1]))

C15_Witness ==
  /\ EncryptedPost
  /\ node # conn.node_key_data.val.pem
  /\ node = encode(PemBytes(Label("PUBLIC KEY"), Key("rsa", 1024, 8)))
  /\ failed
  /\ private_decrypt(CachedKey, decode(Pieces(reqs[1].body)[1]).val) = Ok(as_bytes(out.tx))

\* C16: each failing step of payload encryption has its own EncryptionError
\* code and stops the send before any POST: node PEM not base64 4004,
\* decoded bytes not a public key PEM 4005, key not RSA 4006, the provider
\* failing to encrypt a chunk 4007; the four codes differ from each other
\* and from the retrieval codes 4000 to 4003.
C16_EncryptionErrorCodes ==
  (out.op = "send_transaction" /\ out.encrypt /\ conn.node_key_data.some) =>
    LET p == decode(conn.node_key_data.val.pem)
        key == PKey_public_key_from_pem(p.val)
        tx_chunks == chunks(as_bytes(out.tx), ChunkSize)
        chunk_fails == \E i \in 1..Len(tx_chunks) :
                         ~public_encrypt(key.val, tx_chunks[i], out.seed).ok
        step == IF ~p.ok THEN 4004
                ELSE IF ~key.ok THEN 4005
                ELSE IF key.val.alg # "rsa" THEN 4006
                ELSE IF chunk_fails THEN 4007
                ELSE 0
    IN /\ step # 0 => (out.res = Err("EncryptionError", step) /\ reqs = <<>>)
       /\ (~out.res.ok /\ out.res.kind = "EncryptionError")
            => (out.res.code = step /\ reqs = <<>>)
       /\ Cardinality({4004, 4005, 4006, 4007}) = 4
       /\ {4004, 4005, 4006, 4007} \cap (4000..4003) = {}

C16_Witness ==
  /\ out.op = "send_transaction"
  /\ out.encrypt
  /\ conn.node_key_data.val.pem = encode(PemBytes(Label("PUBLIC KEY"), Key("rsa", 1024, 8)))
  /\ Len(as_bytes(out.tx)) = ChunkSize
  /\ out.res = Err("EncryptionError", 4007)
  /\ reqs = <<>>

\* C27: every Connection that Connection::new returned holds node key data
\* exactly when its encrypt flag is set, so send_transaction on it never
\* returns EncryptionError(4000).
C27_KeyDataIffEncrypt ==
  /\ conn.built => (conn.node_key_data.some <=> conn.encrypt)
  /\ (out.op = "new" /\ out.res.ok)
       => (out.res.val.node_key_data.some <=> out.res.val.encrypt)
  /\ out.op = "send_transaction" => out.res # Err("EncryptionError", 4000)

C27_Witness ==
  /\ out.op = "send_transaction"
  /\ conn.built
  /\ conn.encrypt
  /\ conn.node_key_data.some
  /\ out.res.ok

\* C28: the probe checks only that the GET completes: Connection::new
\* with encrypt=false returns a usable Connection whenever the node
\* answers with an HTTP status, 4xx and 5xx included, and fails, with
\* HttpError(1001), only when the request itself fails.
C28_ProbeAcceptsAnyStatus ==
  (out.op = "new" /\ ~out.encrypt) =>
    /\ out.responses[2].transport => (out.res.ok /\ conn.built /\ conn.url = out.url)
    /\ ~out.responses[2].transport
         => (out.res = Err("HttpError", 1001) /\ ~conn.built)

C28_Witness ==
  /\ out.op = "new"
  /\ ~out.encrypt
  /\ out.responses[2].transport
  /\ out.responses[2].status = 500
  /\ out.res.ok
  /\ conn.built

\* C29: on a Connection with encrypt=true the Transaction text is never
\* posted as it is: a send_transaction either issues no POST (encryption
\* did not complete) or posts the ciphertext Connection::encrypt made of
\* the text, each piece of which is the base64 of one RSA block.
C29_NoPlaintextPosted ==
  (out.op = "send_transaction" /\ conn.encrypt) =>
    \/ (reqs = <<>> /\ ~out.res.ok)
    \/ /\ Len(reqs) = 1
       /\ reqs[1].body # out.tx
       /\ reqs[1].body = encrypt(conn.node_key_data.val, out.tx, out.seed).val
       /\ \A i \in 1..Len(Pieces(reqs[1].body)) :
            LET block == decode(Pieces(reqs[1].body)[i])
            IN block.ok /\ Len(block.val) = RsaSize(CachedKey)

C29_Witness ==
  /\ out.op = "send_transaction"
  /\ conn.encrypt
  /\ Len(reqs) = 1
  /\ out.tx = TxText(1, "ascii")
  /\ reqs[1].body # out.tx
  /\ out.responses[1].status = 404

-----------------------------------------------------------------------------
(* Claims about send_transaction on any Connection value, checked under     *)
(* SendSpec                                                                 *)

\* C17: send_transaction on a Connection with encrypt set and no cached
\* node key data returns Err(EncryptionError(4000)) and issues no POST.
C17_MissingKeyData ==
  (out.op = "send_transaction" /\ conn.encrypt /\ ~conn.node_key_data.some)
    => (out.res = Err("EncryptionError", 4000) /\ reqs = <<>>)

C17_Witness ==
  /\ out.op = "send_transaction"
  /\ conn.encrypt
  /\ conn.node_key_data = None
  /\ out.responses[1] = Response(TRUE, 200, TRUE, <<123, 125>>)
  /\ out.res = Err("EncryptionError", 4000)
  /\ reqs = <<>>

-----------------------------------------------------------------------------
(* Claims about the library as a whole, checked under LibSpec               *)

KeyErrorKinds ==
  {"GenerationError", "SigningError", "StringifyError", "ImportError", "ExportError"}

\* The kind labels of the two error types.
KindLabel(kind) ==
  CASE kind = "GenerationError" -> "Generation Error"
    [] kind = "SigningError" -> "Signing Error"
    [] kind = "StringifyError" -> "Stringify Error"
    [] kind = "ImportError" -> "Import Error"
    [] kind = "ExportError" -> "Export Error"
    [] kind = "HttpError" -> "HTTP Error"
    [] kind = "UrlError" -> "Url Error"
    [] kind = "ResponseError" -> "Response Error"
    [] kind = "EncryptionError" -> "EncryptionError Error"
    [] kind = "EncodingError" -> "Encoding Error"

\* The codes around those either error type numbers.
Codes == UNION {(k * 1000)..(k * 1000 + 9) : k \in 1..5}

\* The fixed descriptions of the two error types.
Descriptions ==
  UNION {{get_generation_error(c), get_signing_error(c), get_stringify_error(c),
          get_import_error(c), get_export_error(c), get_http_error(c),
          get_url_error(c), get_response_error(c), get_encryption_error(c),
          get_encoding_error(c)} : c \in Codes} \ {"Unknown Error"}

\* A text made of a kind label, a code and a description.
Rendered(label, code, description) ==
  label \o " - " \o ToString(code) \o ": " \o description

\* The error rendered is made of its kind label, its code and one of the
\* fixed descriptions, which is not "Unknown Error".
RendersKnown(e, text) ==
  /\ \E d \in Descriptions : text = Rendered(KindLabel(e.kind), e.code, d)
  /\ text # Rendered(KindLabel(e.kind), e.code, "Unknown Error")

\* C25: every KeyError and ConnectionError that an operation returns
\* renders as its kind label, its numeric code and the fixed description of
\* the code, none of them "Unknown Error"; a code that no operation returns
\* and that has no description renders as "Unknown Error".
C25_ErrorsRender ==
  /\ (~last.res.ok /\ last.res.kind \in KeyErrorKinds)
       => RendersKnown(last.res, KeyError_fmt(last.res))
  /\ (~out.res.ok /\ out.res.kind \in ConnectionErrorKinds)
       => RendersKnown(out.res, ConnectionError_fmt(out.res))
  /\ KeyError_fmt(Err("SigningError", 2009)) = "Signing Error - 2009: Unknown Error"
  /\ last.res # Err("SigningError", 2009)
  /\ ConnectionError_fmt(Err("HttpError", 1002)) = "HTTP Error - 1002: Unknown Error"
  /\ out.res # Err("HttpError", 1002)

C25_Witness ==
  /\ last.op = "sign"
  /\ last.res = Err("SigningError", 2008)
  /\ KeyError_fmt(last.res) = "Signing Error - 2008: Error initialising public key"

-----------------------------------------------------------------------------
(* Claims about threads, checked under ThreadSpec                           *)

\* The call of a thread that has returned gave the result that the same
\* call gives when it runs alone on the shared handle or Connection; a POST
\* carried the payload of its own call and was given the answer to it.
ReturnedAsAlone(t) ==
  LET job == thr[t].job
      alone == send_transaction(conn, Transaction_new(job.data), job.nonce,
                                thr[t].got.resp)
  IN /\ job.op = "sign" => thr[t].res = Key_sign(keys[1], job.data, job.fault, job.nonce)
     /\ job.op = "verify"
          => thr[t].res = Key_verify(keys[1], job.data, job.signature, job.fault)
     /\ job.op = "send_transaction" =>
          /\ thr[t].got.client = t
          /\ thr[t].got.req = thr[t].req
          /\ <<thr[t].req>> = alone.reqs
          /\ thr[t].res = alone.res
          /\ (thr[t].got.resp.transport /\ thr[t].got.resp.status = 200)
               => thr[t].res = Ok(alone.reqs[1].body)

====
